---- MODULE Spec2Model ----
(***************************************************************************)
(* Model of the HDWallet class (src/src/accountAbstraction.ts, lines       *)
(* 865-1764): the master-mnemonic store over GunDB (replica store) and     *)
(* localStorage (local cache), and wallet creation on top of it.           *)
(*                                                                         *)
(* Every async method is cut at its awaits: one action per segment that    *)
(* runs without suspension.  A call occupies a slot of `calls` from its    *)
(* start until the caller takes the result (Return).                       *)
(***************************************************************************)
EXTENDS Integers, FiniteSets, Sequences, TLC

\* ------------------------------------------------------------------ bounds
\* Registry size from which no further createWallet is started.
MaxWallets == 1

\* Registry size from which the registry scenarios start no createWallet
\* and no importWalletKeys.
MaxRegistry == 2

\* Largest count handed to getStandardBIP44Addresses
MaxCount == 3

\* Longest input string handed to generatePrivateKeyFromString
MaxInput == 3

\* Most UserOperations sent in one run
MaxOps == 2

\* ------------------------------------------------------------------ values
\* BIP-39 phrases that ethers.Mnemonic.fromPhrase accepts.
ValidPhrases == {"p1", "p2"}
\* A phrase that fails BIP-39 validation.
BadPhrase == "bad"
Phrases == ValidPhrases \cup {BadPhrase}
\* null / undefined where a phrase is expected.
NoPhrase == "none"

\* Call slots.
Calls == {1, 2}

\* Stored strings, by shape.  "enc": JSON.stringify(SEA.encrypt(text, key));
\* "unencrypted": the `unencrypted:${text}` fallback; "raw": the phrase itself;
\* "corrupt": anything else that does not parse or decrypt.
NoValue == [kind |-> "none", key |-> "none", text |-> "none"]
Enc(k, t) == [kind |-> "enc", key |-> k, text |-> t]
Unenc(t) == [kind |-> "unencrypted", key |-> "none", text |-> t]
Raw(t) == [kind |-> "raw", key |-> "none", text |-> t]
Corrupt == [kind |-> "corrupt", key |-> "none", text |-> "none"]

StorageIds == {"pub", "guest"}

VARIABLES
    auth,         \* gun.user().is is set (and with it user._.sea)
    nodeEnvTest,  \* process.env.NODE_ENV === "test"
    overlap,      \* whether the caller starts calls while another is in flight
    replica,      \* GunDB: user.get("master_mnemonic")
    local,        \* localStorage: shogun_master_mnemonic_<id>, per id
    walletPaths,  \* this.walletPaths: address -> path
    events,       \* WALLET_CREATED events emitted so far
    calls,        \* call slots
    known,        \* history: phrase getUserMasterMnemonic has returned
    lastSaved,    \* history: phrase of the last completed save, while fresh
    replicaPaths, \* GunDB: user.get("wallet_paths")
    localPaths,   \* localStorage: shogun_wallet_paths_<id>, per id
    lastRebuild,  \* history: registry the last completed rebuild produced
    provider,     \* this.provider is set
    pending,      \* this.pendingTransactions: hashes in insertion order
    txStatus,     \* status field of each tracked transaction object
    balanceCache, \* this.balanceCache: its keys
    txEvents,     \* TRANSACTION_CONFIRMED / ERROR events emitted so far
    receipts,     \* what provider.getTransactionReceipt finds, per hash
    sweeps,       \* running executions of checkPendingTransactions
    monitoring,   \* this.transactionMonitoringInterval is armed
    hdWalletRef,  \* HDWalletPlugin.hdWallet is not null
    identity,     \* the identity gun.user() is, or was last, logged in as
    mainWallet,   \* this.mainWallet: the identity it was derived for
    aaConfig,     \* AccountAbstractionPlugin: config and paymasterData
    tool,         \* the last call of a synchronous helper, with its result
    entryPoint,   \* this.entryPointContract is set
    factory,      \* this.accountFactoryContract is set
    userOps,      \* history: UserOperations the plugin has sent, and how
    smartAccounts, \* history: addresses getOrCreateSmartAccount returned
    rpcUrl,       \* walletConfig.rpcUrl, and config.rpcUrl of the manager
    listeners,    \* the auth:login and auth:logout listeners are registered
    initResult    \* HDWalletPlugin.initialize: not called, returned, threw

\* The wallet-paths records and the rebuild history
regStoreVars == <<replicaPaths, localPaths, lastRebuild>>

\* The state of the transaction monitor
txVars == <<provider, pending, txStatus, balanceCache, txEvents, receipts,
            sweeps>>

\* The plugin's lifecycle and the identity-bound state
lifeVars == <<monitoring, hdWalletRef, identity, mainWallet>>

\* The synchronous helpers and the account-abstraction configuration
aaVars == <<entryPoint, factory, userOps, smartAccounts>>

\* The plugin's wiring to the core and its RPC endpoint
plugVars == <<rpcUrl, listeners, initResult>>
toolVars == <<aaConfig, tool, aaVars, plugVars>>

vars == <<auth, nodeEnvTest, overlap, replica, local, walletPaths, events,
          calls, known, lastSaved, regStoreVars, txVars, lifeVars, toolVars>>

\* ------------------------------------------------------------ pure helpers
userIsAlways(a) == TRUE
\* `user && user.is` / `user?.is`
userIs(a) == a

\* getStorageUserIdentifier: pub.substring(0, 12), or "guest"
getStorageUserIdentifier(a) == IF a THEN "pub" ELSE "guest"

\* The key encrypt/decrypt use: user._.sea, or `shogun-encrypt-${id}-key`
KeyOf(a) == IF a THEN "sea" ELSE "fallback-guest"

encryptAlwaysFallbackKey(text, a, fails) ==
    IF fails THEN Unenc(text) ELSE Enc("fallback-guest", text)
\* encryptSensitiveData; `fails` is SEA.encrypt throwing
encryptSensitiveData(text, a, fails) ==
    IF fails THEN Unenc(text) ELSE Enc(KeyOf(a), text)

\* decryptSensitiveData: never throws, null when the text does not decrypt
decryptSensitiveData(v, a) ==
    IF v.kind = "unencrypted" THEN v.text
    ELSE IF v.kind = "enc"
         THEN (IF v.key = KeyOf(a) THEN v.text ELSE NoPhrase)
         ELSE NoPhrase

gunMnemonicIgnoresTimeout(data, timedOut) == data
\* The promise of getUserMasterMnemonic: the timer resolves null, the
\* callback resolves `data || null`
gunMnemonicOf(data, timedOut) == IF timedOut THEN NoValue ELSE data

afterSyncPropagatesFailure(decrypted, putOk) ==
    IF putOk THEN decrypted ELSE NoPhrase
\* What getUserMasterMnemonic returns after the put of the local phrase to
\* GunDB: the catch logs and the phrase is returned either way
afterSyncToGun(decrypted, putOk) == decrypted

\* `m/44'/60'/0'/0/${n}`
NoPath == <<>>
BIP44Path(n) == <<44, 60, 0, 0, n>>

nextIndexOffByOne(wp) == Cardinality(DOMAIN wp) + 1
\* Object.keys(this.walletPaths).length
nextIndex(wp) == Cardinality(DOMAIN wp)

\* ethers.HDNodeWallet.fromMnemonic(Mnemonic.fromPhrase(m), path).address;
\* injective in (m, path); throws for an invalid phrase
NoAddress == [mn |-> NoPhrase, path |-> NoPath]
derive(m, path) == [mn |-> m, path |-> path]
CanDerive(m) == m \in ValidPhrases

\* this.walletPaths[address] = { path, ... }
RecordPath(wp, addr, path) ==
    [a \in (DOMAIN wp) \cup {addr} |-> IF a = addr THEN path ELSE wp[a]]

EmptyPaths == [a \in {} |-> NoPath]

\* WalletInfo[] returned by loadWallets, one element per registry key
EmptyWallets == [a \in {} |-> [address |-> NoAddress, path |-> NoPath]]

\* A path value HDNodeWallet.fromMnemonic rejects (missing or malformed)
BadPath == <<0>>
ValidPath(p) == p # NoPath /\ p # BadPath

\* A wallet-paths record as a backend holds it: absent, a string that
\* JSON.parse rejects, or a map address -> path.  In the GunDB record an
\* entry without a path (or a null) is written with NoPath.
NoPathsRecord == [kind |-> "none", entries |-> EmptyPaths]
GarbledPaths == [kind |-> "garbled", entries |-> EmptyPaths]
PathsRecord(f) == [kind |-> "map", entries |-> f]

\* The entries of a GunDB record that carry a path
GunEntries(rec) ==
    IF rec.kind # "map" THEN {}
    ELSE {a \in DOMAIN rec.entries : rec.entries[a] # NoPath}

loadFromGunIfAbsent(wp, rec) ==
    [a \in (DOMAIN wp) \cup GunEntries(rec) |->
        IF a \in DOMAIN wp THEN wp[a] ELSE rec.entries[a]]
\* loadWalletPathsFromGun, the .once callback: every entry with a path is
\* assigned, over what the registry holds
loadWalletPathsFromGun(wp, rec) ==
    [a \in (DOMAIN wp) \cup GunEntries(rec) |->
        IF a \in GunEntries(rec) THEN rec.entries[a] ELSE wp[a]]

loadFromLocalOverwrites(wp, rec) ==
    IF rec.kind # "map" THEN wp
    ELSE [a \in (DOMAIN wp) \cup (DOMAIN rec.entries) |->
            IF a \in DOMAIN rec.entries THEN rec.entries[a] ELSE wp[a]]
\* loadWalletPathsFromLocalStorage: the parsed entries are added where the
\* registry has none for the address; nothing is added when the item is
\* absent or does not parse
loadWalletPathsFromLocalStorage(wp, rec) ==
    IF rec.kind # "map" THEN wp
    ELSE [a \in (DOMAIN wp) \cup (DOMAIN rec.entries) |->
            IF a \in DOMAIN wp THEN wp[a] ELSE rec.entries[a]]

\* importWalletKeys, the loop: each wallet of the list is assigned in order
RECURSIVE importAll(_, _)
importAll(wp, ws) ==
    IF ws = <<>> THEN wp
    ELSE importAll(RecordPath(wp, Head(ws).address, Head(ws).path), Tail(ws))

\* loadWallets, the loop: one wallet per registry entry, derived from the
\* mnemonic and the entry's path
loadWalletsList(mn, wp) ==
    [a \in DOMAIN wp |-> [address |-> derive(mn, wp[a]), path |-> wp[a]]]

\* loadWallets, the loop: fromPhrase / fromMnemonic throws in an iteration
loadWalletsThrows(mn, wp) ==
    \E a \in DOMAIN wp : ~CanDerive(mn) \/ ~ValidPath(wp[a])

loadWalletsIgnoresAbsent(mn) == FALSE
\* loadWallets: `if (!mnemonic) return []`
loadWalletsNoMnemonic(mn) == mn = NoPhrase

\* history: no rebuild has completed yet
NotRebuilt == [done |-> FALSE, sawReplica |-> FALSE, reg |-> EmptyPaths]

\* -------------------------------------------------------------- call slots
IdleCall ==
    [op |-> "none", pc |-> "idle", arg |-> NoPhrase, path |-> NoPath,
     mnemonic |-> NoPhrase, decrypted |-> NoPhrase,
     pending |-> NoValue, pendingId |-> "none",
     address |-> NoAddress, wallets |-> EmptyWallets, error |-> "none",
     timerArmed |-> FALSE, timedOut |-> FALSE, answered |-> FALSE,
     fromLocal |-> FALSE, putFailed |-> FALSE, minted |-> FALSE,
     saved |-> FALSE, authStable |-> TRUE,
     preReplica |-> NoValue, preLocal |-> NoValue, preKnown |-> NoPhrase,
     preSaved |-> NoPhrase, preSize |-> 0,
     count |-> 0, sawReplica |-> FALSE,
     prePaths |-> {}, preRegistry |-> EmptyPaths, preRebuild |-> NotRebuilt,
     preDerived |-> FALSE, main |-> "none", synced |-> FALSE]

\* The master mnemonic of the identity: what getUserMasterMnemonic finds,
\* the replica value for an authenticated user when there is one, else the
\* local value
CurrentMnemonic ==
    IF userIs(auth) /\ replica # NoValue
    THEN decryptSensitiveData(replica, auth)
    ELSE IF local[getStorageUserIdentifier(auth)] # NoValue
    THEN decryptSensitiveData(local[getStorageUserIdentifier(auth)], auth)
    ELSE NoPhrase

\* Every registry entry is the derivation of its path from the mnemonic
RegistryDerived ==
    \A a \in DOMAIN walletPaths : a = derive(CurrentMnemonic, walletPaths[a])

\* A fresh call of `op`, with the state it starts from recorded
NewCall(op, arg) ==
    [IdleCall EXCEPT !.op = op, !.arg = arg,
                     !.preReplica = replica,
                     !.preLocal = local[getStorageUserIdentifier(auth)],
                     !.preKnown = known, !.preSaved = lastSaved,
                     !.preSize = Cardinality(DOMAIN walletPaths),
                     !.prePaths = {walletPaths[a] : a \in DOMAIN walletPaths},
                     !.preRegistry = walletPaths,
                     !.preRebuild = lastRebuild,
                     !.preDerived = RegistryDerived]

CanStart(c) ==
    /\ calls[c].pc = "idle"
    /\ overlap \/ (c = 1 /\ \A d \in Calls : calls[d].pc = "idle")

\* getUserMasterMnemonic returns r to the method that awaits it
ReturnMnemonic(cr, r) ==
    [cr EXCEPT !.mnemonic = r,
               !.pc = CASE cr.op = "get" -> "done"
                        [] cr.op = "create" -> "cw_resolved"
                        [] cr.op = "force" -> "fs_resolved"
                        [] cr.op = "smart" -> "sa_resolved"
                        [] OTHER -> "lw_resolved"]

\* getUserMasterMnemonic, step 2: localStorage.getItem and decrypt
CheckLocal(cr) ==
    LET enc == local[getStorageUserIdentifier(auth)]
    IN IF enc = NoValue
       THEN ReturnMnemonic(cr, NoPhrase)
       ELSE [cr EXCEPT !.decrypted = decryptSensitiveData(enc, auth),
                       !.fromLocal = TRUE, !.pc = "gm_sync"]

\* getUserMasterMnemonic up to its first await
EnterGet(cr) ==
    IF userIs(auth)
    THEN [cr EXCEPT !.pc = "gm_wait", !.timerArmed = TRUE]
    ELSE CheckLocal(cr)

\* history: the first phrase a completed getUserMasterMnemonic returned
KnownAfter(new) ==
    IF /\ new.pc \in {"done", "cw_resolved", "lw_resolved", "fs_resolved"}
       /\ new.op \in {"get", "create", "load", "force"}
       /\ new.error = "none"
       /\ new.mnemonic # NoPhrase /\ new.authStable /\ known = NoPhrase
       /\ ~new.minted
    THEN new.mnemonic ELSE known

TypeOK ==
    /\ auth \in BOOLEAN /\ nodeEnvTest \in BOOLEAN /\ overlap \in BOOLEAN
    /\ replica.kind \in {"none", "enc", "unencrypted", "raw", "corrupt"}
    /\ \A i \in StorageIds :
         local[i].kind \in {"none", "enc", "unencrypted", "raw", "corrupt"}
    /\ \A a \in DOMAIN walletPaths : walletPaths[a] # NoPath
    /\ \A c \in Calls : calls[c].pc \in
         {"idle", "gm_wait", "gm_sync", "cw_resolved", "lw_resolved",
          "sv_shim", "sv_put", "sv_local", "rb_wait", "rb_local",
          "fs_resolved", "sa_resolved", "done"}

\* ---------------------------------------------------- transaction monitor
\* The tracked transactions: h1 is a transfer, h2 has no recipient
TxHashes == {"h1", "h2"}
txFrom(h) == IF h = "h1" THEN "0xAA" ELSE "0xBb"
txTo(h) == IF h = "h1" THEN "0xBb" ELSE ""

\* String.prototype.toLowerCase on the addresses in use
toLowerCase(a) ==
    CASE a = "0xAA" -> "0xaa"
      [] a = "0xBb" -> "0xbb"
      [] OTHER -> a

\* Keys of the balance cache: lower-cased addresses
CacheKeys == {"0xaa", "0xbb", "0xcc"}

invalidateExactKey(cache, address) == cache \ {address}
\* invalidateBalanceCache(address)
invalidateBalanceCache(cache, address) == cache \ {toLowerCase(address)}

\* Map.prototype.delete on the pending map, kept in insertion order
deleteTx(seq, h) == SelectSeq(seq, LAMBDA x : x # h)

\* The entry a Map iterator yields next: the first entry not yet passed
\* that is still in the map
RECURSIVE nextEntry(_, _)
nextEntry(todo, seq) ==
    IF todo = <<>> THEN <<>>
    ELSE IF \E i \in 1..Len(seq) : seq[i] = Head(todo) THEN todo
    ELSE nextEntry(Tail(todo), seq)

\* Executions of checkPendingTransactions that can be in flight together
Sweeps == {"s1", "s2"}
IdleSweep == [pc |-> "idle", cur |-> "none", todo |-> <<>>,
              lastHash |-> "none", lastOutcome |-> "none"]

\* A manager without provider and without tracked transactions
MonitorQuiet ==
    /\ provider = FALSE
    /\ pending = <<>>
    /\ txStatus = [h \in TxHashes |-> "pending"]
    /\ balanceCache = {}
    /\ txEvents = <<>>
    /\ receipts = [h \in TxHashes |-> "none"]
    /\ sweeps = [s \in Sweeps |-> IdleSweep]

\* ------------------------------------------------------ synchronous helpers
\* 32-bit integers are kept as four bytes, least significant first
\* a ^ b on n-bit operands
RECURSIVE xorBits(_, _, _)
xorBits(a, b, n) ==
    IF n = 0 THEN 0
    ELSE (((a % 2) + (b % 2)) % 2) + 2 * xorBits(a \div 2, b \div 2, n - 1)

xor32(x, y) == [i \in 1..4 |-> xorBits(x[i], y[i], 8)]

\* Math.imul(x, y): the low 32 bits of the product
imul(x, y) ==
    LET c0 == x[1] * y[1]
        c1 == x[1] * y[2] + x[2] * y[1] + (c0 \div 256)
        c2 == x[1] * y[3] + x[2] * y[2] + x[3] * y[1] + (c1 \div 256)
        c3 == x[1] * y[4] + x[2] * y[3] + x[3] * y[2] + x[4] * y[1]
                + (c2 \div 256)
    IN <<c0 % 256, c1 % 256, c2 % 256, c3 % 256>>

\* x >>> 16 and x >>> 13
shr16(x) == <<x[3], x[4], 0, 0>>
shr13(x) ==
    LET v == (x[2] + 256 * x[3] + 65536 * x[4]) \div 32
    IN <<v % 256, (v \div 256) % 256, (v \div 65536) % 256, 0>>

\* new TextEncoder().encode(input), for code points below 2048
RECURSIVE utf8(_)
utf8(str) ==
    IF str = <<>> THEN <<>>
    ELSE (IF Head(str) < 128 THEN <<Head(str)>>
          ELSE <<192 + (Head(str) \div 64), 128 + (Head(str) % 64)>>)
         \o utf8(Tail(str))

\* The loop of digestSync over the bytes, for one of the two accumulators
RECURSIVE absorb(_, _, _)
absorb(h, data, k) ==
    IF data = <<>> THEN h
    ELSE absorb(imul(xor32(h, <<Head(data), 0, 0, 0>>), k), Tail(data), k)

\* The two closing rounds of digestSync on an accumulator
finalMix(h) ==
    LET a == imul(xor32(h, shr16(h)), <<107, 202, 235, 133>>)
    IN imul(xor32(a, shr13(a)), <<53, 174, 178, 194>>)

\* digestSync(data): 32 bytes, eight from the accumulators h1 and h2 and
\* the rest derived from those eight
digestSync(data) ==
    LET h1 == finalMix(absorb(<<239, 190, 173, 222>>, data, <<177, 121, 55, 158>>))
        h2 == finalMix(absorb(<<87, 206, 198, 65>>, data, <<149, 100, 53, 95>>))
        first == h1 \o h2
    IN [i \in 1..32 |->
          IF i <= 8 THEN first[i]
          ELSE xorBits(first[((i - 1) % 8) + 1], first[((i - 2) % 8) + 1], 8)]

\* b.toString(16).padStart(2, "0") for every byte: two hex digits per byte
toHex(bytes) ==
    [i \in 1..(2 * Len(bytes)) |->
        IF i % 2 = 1 THEN bytes[(i + 1) \div 2] \div 16
        ELSE bytes[i \div 2] % 16]

\* generatePrivateKeyFromString(input): the hex digits after "0x"
generatePrivateKeyFromString(input) == toHex(digestSync(utf8(input)))

\* ------------------------------------------------------------------- Init
\* The identities that log in, and the mnemonic each one owns
Identities == {"A", "B"}

\* The account-abstraction configuration after construction
Unset == "undefined"
InitialConfig == [paymasterAddress |-> Unset,
                  bundlerUrl |-> Unset,
                  paymasterData |-> "0x"]

\* No helper has been called
NoTool == [fn |-> "none", input |-> <<>>, count |-> 0, output |-> <<>>,
           error |-> "none"]

\* Indices handed to getOrCreateSmartAccount
SmartIndices == {0, 1}

\* A plugin initialised without provider: no contract object, nothing sent
NoContracts ==
    /\ entryPoint = FALSE
    /\ factory = FALSE
    /\ userOps = {}
    /\ smartAccounts = [i \in SmartIndices |-> {}]

\* RPC endpoints a caller configures; "" is no endpoint
NoUrl == ""
RpcUrls == {"https://rpc.one", "https://rpc.two"}

\* initialize(core) has returned for a plugin constructed without rpcUrl:
\* the listeners are registered
PluginWired ==
    /\ rpcUrl = NoUrl
    /\ listeners = TRUE
    /\ initResult = "ok"

\* A plugin initialised for identity A: setupTransactionMonitoring has armed
\* the interval unless NODE_ENV is "test"; no main wallet is cached
PluginInitialised ==
    /\ monitoring = ~nodeEnvTest
    /\ hdWalletRef = TRUE
    /\ identity = "A"
    /\ mainWallet = "none"
    /\ aaConfig = InitialConfig
    /\ tool = NoTool
    /\ NoContracts
    /\ PluginWired

\* No wallet-paths record in either backend
NoWalletPathsStored ==
    /\ replicaPaths = NoPathsRecord
    /\ localPaths = [i \in StorageIds |-> NoPathsRecord]
    /\ lastRebuild = NotRebuilt

InitStored == {NoValue, Corrupt} \cup {Enc("sea", m) : m \in ValidPhrases}

InitCommon ==
    /\ auth \in BOOLEAN
    /\ nodeEnvTest \in BOOLEAN
    /\ replica \in InitStored
    /\ \E v \in InitStored : local = [i \in StorageIds |->
                                        IF i = "pub" THEN v ELSE NoValue]
    /\ walletPaths = EmptyPaths
    /\ events = {}
    /\ calls = [c \in Calls |-> IdleCall]
    /\ known = NoPhrase
    /\ lastSaved = NoPhrase
    /\ NoWalletPathsStored
    /\ MonitorQuiet
    /\ PluginInitialised

Init == InitCommon /\ overlap = FALSE

InitOverlap == InitCommon /\ overlap = TRUE

\* ---------------------------------------------------------------- actions
\* Slot c takes the call record `new`
SetCalls(c, new) == calls' = [calls EXCEPT ![c] = new]

\* A login seen by a manager that no listener serves: gun.user().is and
\* user._.sea become available, the manager's state is not touched.
Login ==
    /\ ~auth
    /\ auth' = TRUE
    /\ calls' = [c \in Calls |->
                   IF calls[c].pc = "idle" THEN calls[c]
                   ELSE [calls[c] EXCEPT !.authStable = FALSE]]
    /\ known' = NoPhrase
    /\ lastSaved' = NoPhrase
    /\ UNCHANGED <<regStoreVars, txVars, lifeVars, toolVars>>
    /\ UNCHANGED <<nodeEnvTest, overlap, replica, local, walletPaths, events>>

\* The auth listeners are registered and find a manager to call
\* (`this.hdWallet?.`)
listenerServes == listeners /\ hdWalletRef

\* auth:logout: the session is left and the listener runs cleanup(), which
\* clears the monitoring interval and every other timer, the 5 s timer of a
\* waiting mnemonic query included.
Logout ==
    /\ auth
    /\ auth' = FALSE
    /\ calls' = [c \in Calls |->
                   IF calls[c].pc = "idle" THEN calls[c]
                   ELSE [calls[c] EXCEPT !.authStable = FALSE,
                                         !.timerArmed =
                                            @ /\ ~listenerServes]]
    /\ known' = NoPhrase
    /\ lastSaved' = NoPhrase
    /\ monitoring' = (monitoring /\ ~listenerServes)
    /\ UNCHANGED <<regStoreVars, txVars, hdWalletRef, identity, mainWallet,
                   toolVars>>
    /\ UNCHANGED <<nodeEnvTest, overlap, replica, local, walletPaths, events>>

\* getUserMasterMnemonic() is called
GetStart(c) ==
    /\ CanStart(c)
    /\ LET new == EnterGet(NewCall("get", NoPhrase))
       IN /\ SetCalls(c, new)
          /\ known' = KnownAfter(new)
    /\ UNCHANGED <<regStoreVars, txVars, lifeVars, toolVars>>
    /\ UNCHANGED <<auth, nodeEnvTest, overlap, replica, local, walletPaths,
                   events, lastSaved>>

\* The promise of the GunDB query resolves: by the .once callback
\* (timedOut = FALSE) or by the 5 s timer (timedOut = TRUE).  A value is
\* decrypted and returned; without one localStorage is read.
GetReplicaResolve(c, timedOut) ==
    /\ calls[c].pc = "gm_wait"
    /\ timedOut => calls[c].timerArmed
    /\ LET gm == gunMnemonicOf(replica, timedOut)
           cr == [calls[c] EXCEPT !.timerArmed = FALSE,
                                  !.timedOut = timedOut,
                                  !.answered = ~timedOut]
           new == IF gm # NoValue
                  THEN ReturnMnemonic(cr, decryptSensitiveData(gm, auth))
                  ELSE CheckLocal(cr)
       IN /\ SetCalls(c, new)
          /\ known' = KnownAfter(new)
    /\ UNCHANGED <<regStoreVars, txVars, lifeVars, toolVars>>
    /\ UNCHANGED <<auth, nodeEnvTest, overlap, replica, local, walletPaths,
                   events, lastSaved>>

\* After the localStorage value is decrypted: the phrase is put to GunDB
\* when there is one and the user is authenticated; then it is returned.
GetSync(c) ==
    /\ calls[c].pc = "gm_sync"
    /\ LET cr == calls[c]
       IN IF cr.decrypted # NoPhrase /\ userIs(auth)
          THEN \E ok \in BOOLEAN :
                 LET new == ReturnMnemonic([cr EXCEPT !.putFailed = ~ok],
                                           afterSyncToGun(cr.decrypted, ok))
                 IN /\ replica' = IF ok THEN Raw(cr.decrypted) ELSE replica
                    /\ lastSaved' = IF ok THEN NoPhrase ELSE lastSaved
                    /\ SetCalls(c, new)
                    /\ known' = KnownAfter(new)
          ELSE LET new == ReturnMnemonic(cr, cr.decrypted)
               IN /\ SetCalls(c, new)
                  /\ known' = KnownAfter(new)
                  /\ UNCHANGED <<replica, lastSaved>>
    /\ UNCHANGED <<regStoreVars, txVars, lifeVars, toolVars>>
    /\ UNCHANGED <<auth, nodeEnvTest, overlap, local, walletPaths, events>>

\* saveUserMasterMnemonic up to its first await; f: SEA.encrypt throws
EnterSave(cr, f) ==
    IF userIs(auth)
    THEN IF nodeEnvTest
         THEN [cr EXCEPT !.pc = "sv_shim"]
         ELSE [cr EXCEPT !.pending = encryptSensitiveData(cr.arg, auth, f),
                         !.pc = "sv_put"]
    ELSE [cr EXCEPT !.pendingId = getStorageUserIdentifier(auth),
                    !.pending = encryptSensitiveData(cr.arg, auth, f),
                    !.pc = "sv_local"]

\* createWallet from the derivation on: derive, record, emit, return
DeriveCall(cr) ==
    IF CanDerive(cr.mnemonic)
    THEN [cr EXCEPT !.address = derive(cr.mnemonic, cr.path), !.pc = "done"]
    ELSE [cr EXCEPT !.error = "invalid mnemonic", !.pc = "done"]

PathsAfter(new) ==
    IF new.op = "create" /\ new.pc = "done" /\ new.error = "none"
    THEN RecordPath(walletPaths, new.address, new.path)
    ELSE walletPaths

EventsAfter(new) ==
    IF new.op = "create" /\ new.pc = "done" /\ new.error = "none"
    THEN events \cup {[address |-> new.address, path |-> new.path]}
    ELSE events

\* saveUserMasterMnemonic has returned to the method that awaits it
AfterSave(cr) ==
    IF cr.op = "create"
    THEN DeriveCall([cr EXCEPT !.saved = TRUE])
    ELSE [cr EXCEPT !.saved = TRUE, !.pc = "done"]

\* history: the phrase of a save completed by the authenticated identity
SavedAfter(new) ==
    IF new.saved /\ new.authStable /\ auth THEN new.arg ELSE NoPhrase

\* saveUserMasterMnemonic(m) / importMnemonic(m) is called
SaveStart(c, op, m) ==
    /\ CanStart(c)
    /\ op \in {"save", "import"}
    /\ \E f \in BOOLEAN : SetCalls(c, EnterSave(NewCall(op, m), f))
    /\ known' = NoPhrase
    /\ lastSaved' = NoPhrase
    /\ UNCHANGED <<regStoreVars, txVars, lifeVars, toolVars>>
    /\ UNCHANGED <<auth, nodeEnvTest, overlap, replica, local, walletPaths,
                   events>>

\* The NODE_ENV === "test" branch: `await user.get().put({}); return`
SaveShim(c) ==
    /\ calls[c].pc = "sv_shim"
    /\ LET new == AfterSave(calls[c])
       IN /\ SetCalls(c, new)
          /\ walletPaths' = PathsAfter(new)
          /\ events' = EventsAfter(new)
          /\ lastSaved' = SavedAfter(new)
    /\ UNCHANGED <<regStoreVars, txVars, lifeVars, toolVars>>
    /\ UNCHANGED <<auth, nodeEnvTest, overlap, replica, local, known>>

\* `await user.get("master_mnemonic").put(encryptedMnemonic)`; when it
\* throws the save rethrows.  Then the storage key is computed and the
\* phrase is encrypted again (f: SEA.encrypt throws).
SavePut(c) ==
    /\ calls[c].pc = "sv_put"
    /\ LET cr == calls[c]
       IN \E ok \in BOOLEAN, f \in BOOLEAN :
            IF ok
            THEN /\ replica' = cr.pending
                 /\ SetCalls(c, [cr EXCEPT
                       !.pendingId = getStorageUserIdentifier(auth),
                       !.pending = encryptSensitiveData(cr.arg, auth, f),
                       !.pc = "sv_local"])
            ELSE /\ replica' = replica
                 /\ SetCalls(c, [cr EXCEPT !.error = "put failed",
                                           !.putFailed = TRUE,
                                           !.pc = "done"])
    /\ lastSaved' = NoPhrase
    /\ UNCHANGED <<regStoreVars, txVars, lifeVars, toolVars>>
    /\ UNCHANGED <<auth, nodeEnvTest, overlap, local, walletPaths, events,
                   known>>

\* localStorage.setItem(storageKey, encryptedMnemonic); the save returns
SaveLocal(c) ==
    /\ calls[c].pc = "sv_local"
    /\ LET cr == calls[c]
           new == AfterSave(cr)
       IN /\ local' = [local EXCEPT ![cr.pendingId] = cr.pending]
          /\ SetCalls(c, new)
          /\ walletPaths' = PathsAfter(new)
          /\ events' = EventsAfter(new)
          /\ lastSaved' = SavedAfter(new)
    /\ UNCHANGED <<regStoreVars, txVars, lifeVars, toolVars>>
    /\ UNCHANGED <<auth, nodeEnvTest, overlap, replica, known>>

\* createWallet() is called: the authentication check, the path from the
\* registry size, then getUserMasterMnemonic
CreateBegin(c) ==
    /\ CanStart(c)
    /\ LET new == IF ~userIs(auth)
                  THEN [NewCall("create", NoPhrase) EXCEPT
                          !.error = "User not authenticated", !.pc = "done"]
                  ELSE EnterGet([NewCall("create", NoPhrase) EXCEPT
                          !.path = BIP44Path(nextIndex(walletPaths))])
       IN /\ SetCalls(c, new)
          /\ known' = KnownAfter(new)
    /\ UNCHANGED <<regStoreVars, txVars, lifeVars, toolVars>>
    /\ UNCHANGED <<auth, nodeEnvTest, overlap, replica, local, walletPaths,
                   events, lastSaved>>

\* createWallet() called while the registry is below MaxWallets
CreateStart(c) ==
    /\ userIs(auth) => Cardinality(DOMAIN walletPaths) < MaxWallets
    /\ CreateBegin(c)

\* createWallet after getUserMasterMnemonic: without a phrase a new one is
\* generated and saved; with one the wallet is derived and recorded.
CreateResolved(c) ==
    /\ calls[c].pc = "cw_resolved"
    /\ LET cr == calls[c]
       IN IF cr.mnemonic = NoPhrase
          THEN \E m \in ValidPhrases, f \in BOOLEAN :
                 /\ SetCalls(c, EnterSave([cr EXCEPT !.mnemonic = m,
                                                     !.arg = m,
                                                     !.minted = TRUE], f))
                 /\ UNCHANGED <<walletPaths, events>>
          ELSE LET new == DeriveCall(cr)
               IN /\ SetCalls(c, new)
                  /\ walletPaths' = PathsAfter(new)
                  /\ events' = EventsAfter(new)
    /\ UNCHANGED <<regStoreVars, txVars, lifeVars, toolVars>>
    /\ UNCHANGED <<auth, nodeEnvTest, overlap, replica, local, known,
                   lastSaved>>

\* loadWallets() is called
LoadStart(c) ==
    /\ CanStart(c)
    /\ LET new == EnterGet(NewCall("load", NoPhrase))
       IN /\ SetCalls(c, new)
          /\ known' = KnownAfter(new)
    /\ UNCHANGED <<regStoreVars, txVars, lifeVars, toolVars>>
    /\ UNCHANGED <<auth, nodeEnvTest, overlap, replica, local, walletPaths,
                   events, lastSaved>>

\* loadWallets after getUserMasterMnemonic: [] without a phrase, else one
\* wallet derived per registry entry
LoadResolved(c) ==
    /\ calls[c].pc = "lw_resolved"
    /\ LET cr == calls[c]
       IN SetCalls(c,
            IF loadWalletsNoMnemonic(cr.mnemonic)
            THEN [cr EXCEPT !.pc = "done"]
            ELSE IF loadWalletsThrows(cr.mnemonic, walletPaths)
            THEN [cr EXCEPT !.error = "derivation failed", !.pc = "done"]
            ELSE [cr EXCEPT !.pc = "done",
                    !.wallets = loadWalletsList(cr.mnemonic, walletPaths)])
    /\ UNCHANGED <<regStoreVars, txVars, lifeVars, toolVars>>
    /\ UNCHANGED <<auth, nodeEnvTest, overlap, replica, local, walletPaths,
                   events, known, lastSaved>>

\* The caller takes the result of a finished call
Return(c) ==
    /\ calls[c].pc = "done"
    /\ SetCalls(c, IdleCall)
    /\ UNCHANGED <<regStoreVars, txVars, lifeVars, toolVars>>
    /\ UNCHANGED <<auth, nodeEnvTest, overlap, replica, local, walletPaths,
                   events, known, lastSaved>>

\* ------------------------------------------------------- registry actions
rebuildKeepsEntries(wp) == wp
\* initializeWalletPaths: `this.walletPaths = {}`
rebuildReset(wp) == EmptyPaths

\* initializeWalletPaths() is called: the registry is reset and
\* loadWalletPathsFromGun either resolves at once (nobody logged in) or
\* issues user.get("wallet_paths").once(...) and waits for its callback
RebuildStart(c) ==
    /\ CanStart(c)
    /\ walletPaths' = rebuildReset(walletPaths)
    /\ SetCalls(c, [NewCall("rebuild", NoPhrase) EXCEPT
                      !.pc = IF userIs(auth) THEN "rb_wait" ELSE "rb_local"])
    /\ UNCHANGED <<regStoreVars, txVars, lifeVars, toolVars>>
    /\ UNCHANGED <<auth, nodeEnvTest, overlap, replica, local, events, known,
                   lastSaved>>

\* The .once callback runs: with the stored record when `answers`, with no
\* data when the replica store fails or has nothing
RebuildGunAnswer(c, answers) ==
    /\ calls[c].pc = "rb_wait"
    /\ LET data == IF answers THEN replicaPaths ELSE NoPathsRecord
       IN walletPaths' = loadWalletPathsFromGun(walletPaths, data)
    /\ SetCalls(c, [calls[c] EXCEPT !.pc = "rb_local",
                                    !.sawReplica = answers])
    /\ UNCHANGED <<regStoreVars, txVars, lifeVars, toolVars>>
    /\ UNCHANGED <<auth, nodeEnvTest, overlap, replica, local, events, known,
                   lastSaved>>

\* initializeWalletPaths after its await: loadWalletPathsFromLocalStorage,
\* then the method returns
RebuildLocal(c) ==
    /\ calls[c].pc = "rb_local"
    /\ walletPaths' = loadWalletPathsFromLocalStorage(walletPaths,
                          localPaths[getStorageUserIdentifier(auth)])
    /\ SetCalls(c, [calls[c] EXCEPT !.pc = "done"])
    /\ lastRebuild' = [done |-> TRUE, sawReplica |-> calls[c].sawReplica,
                       reg |-> walletPaths']
    /\ UNCHANGED <<replicaPaths, localPaths, txVars, lifeVars, toolVars>>
    /\ UNCHANGED <<auth, nodeEnvTest, overlap, replica, local, events, known,
                   lastSaved>>

\* importWalletKeys(walletsData): JSON.parse, then every wallet of the list
\* is recorded under its address; the count is returned
ImportWalletKeys(c, ws, parses) ==
    /\ CanStart(c)
    /\ Cardinality(DOMAIN walletPaths) < MaxRegistry
    /\ IF parses
       THEN /\ walletPaths' = importAll(walletPaths, ws)
            /\ SetCalls(c, [NewCall("importKeys", NoPhrase) EXCEPT
                              !.count = Len(ws), !.pc = "done"])
       ELSE /\ walletPaths' = walletPaths
            /\ SetCalls(c, [NewCall("importKeys", NoPhrase) EXCEPT
                              !.error = "JSON.parse failed", !.pc = "done"])
    /\ UNCHANGED <<regStoreVars, txVars, lifeVars, toolVars>>
    /\ UNCHANGED <<auth, nodeEnvTest, overlap, replica, local, events, known,
                   lastSaved>>

\* createWallet() called while the registry is below MaxRegistry
RegCreateStart(c) ==
    /\ Cardinality(DOMAIN walletPaths) < MaxRegistry
    /\ CreateBegin(c)

Next ==
    \/ Login
    \/ Logout
    \/ \E c \in Calls : GetStart(c)
    \/ \E c \in Calls, t \in BOOLEAN : GetReplicaResolve(c, t)
    \/ \E c \in Calls : GetSync(c)
    \/ \E c \in Calls, op \in {"save", "import"}, m \in Phrases :
         SaveStart(c, op, m)
    \/ \E c \in Calls : SaveShim(c)
    \/ \E c \in Calls : SavePut(c)
    \/ \E c \in Calls : SaveLocal(c)
    \/ \E c \in Calls : CreateStart(c)
    \/ \E c \in Calls : CreateResolved(c)
    \/ \E c \in Calls : LoadStart(c)
    \/ \E c \in Calls : LoadResolved(c)
    \/ \E c \in Calls : Return(c)

Spec == Init /\ [][Next]_vars

\* ------------------------------------------------------- monitor actions
\* The wallet getMainWallet returns and caches: the cached one when there
\* is one, else the one derived from the credentials of the logged-in user
mainWalletOf(cache, a, i) ==
    IF cache # "none" THEN cache
    ELSE IF userIs(a) THEN i ELSE "none"

\* HDWallet.setRpcUrl(url): config.rpcUrl and this.provider are assigned,
\* then getSigner() runs getMainWallet(), which caches the main wallet or
\* throws
hdSetRpcUrl(url) ==
    /\ rpcUrl' = url
    /\ provider' = TRUE
    /\ mainWallet' = mainWalletOf(mainWallet, auth, identity)

\* setRpcUrl(rpcUrl) on a manager without provider
SetRpcUrl ==
    /\ ~provider
    /\ \E url \in RpcUrls : hdSetRpcUrl(url)
    /\ UNCHANGED <<pending, txStatus, balanceCache, txEvents, receipts,
                   sweeps, regStoreVars, monitoring, hdWalletRef, identity,
                   aaConfig, tool, aaVars, listeners, initResult>>
    /\ UNCHANGED <<auth, nodeEnvTest, overlap, replica, local, walletPaths,
                   events, calls, known, lastSaved>>

\* The network mines transaction h; its receipt reports success or not
ReceiptArrives(h, r) ==
    /\ receipts[h] = "none"
    /\ receipts' = [receipts EXCEPT ![h] = r]
    /\ UNCHANGED <<provider, pending, txStatus, balanceCache, txEvents,
                   sweeps, regStoreVars, lifeVars, toolVars>>
    /\ UNCHANGED <<auth, nodeEnvTest, overlap, replica, local, walletPaths,
                   events, calls, known, lastSaved>>

\* An execution that returns when a receipt lookup fails
sweepAbortsOnError(sw, seq, h, outcome) ==
    LET rest == IF outcome = "error" THEN <<>> ELSE nextEntry(sw.todo, seq)
    IN IF rest = <<>>
       THEN [IdleSweep EXCEPT !.lastHash = h, !.lastOutcome = outcome]
       ELSE [pc |-> "await", cur |-> Head(rest), todo |-> Tail(rest),
             lastHash |-> h, lastOutcome |-> outcome]

\* The position of an execution that has passed its await for the current
\* entry: at the await for the next entry of the map, or returned
sweepAdvance(sw, seq, h, outcome) ==
    LET rest == nextEntry(sw.todo, seq)
    IN IF rest = <<>>
       THEN [IdleSweep EXCEPT !.lastHash = h, !.lastOutcome = outcome]
       ELSE [pc |-> "await", cur |-> Head(rest), todo |-> Tail(rest),
             lastHash |-> h, lastOutcome |-> outcome]

\* The interval fires with a provider set: checkPendingTransactions runs
\* up to `await provider.getTransactionReceipt(txHash)` for the first entry
SweepStart(s) ==
    /\ monitoring
    /\ provider
    /\ sweeps[s].pc = "idle"
    /\ pending # <<>>
    /\ sweeps' = [sweeps EXCEPT ![s] =
                    [pc |-> "await", cur |-> Head(pending),
                     todo |-> Tail(pending),
                     lastHash |-> "none", lastOutcome |-> "none"]]
    /\ UNCHANGED <<provider, pending, txStatus, balanceCache, txEvents,
                   receipts, regStoreVars, lifeVars, toolVars>>
    /\ UNCHANGED <<auth, nodeEnvTest, overlap, replica, local, walletPaths,
                   events, calls, known, lastSaved>>

\* getTransactionReceipt settles for the current entry: it rejects (the
\* catch logs), finds no receipt, or returns the receipt; then the loop
\* moves to the next entry
SweepStep(s, rejects) ==
    /\ sweeps[s].pc = "await"
    /\ LET h == sweeps[s].cur
           outcome == IF rejects THEN "error" ELSE receipts[h]
           cleared == invalidateBalanceCache(balanceCache, txFrom(h))
       IN /\ IF outcome \in {"ok", "reverted"}
             THEN /\ txStatus' = [txStatus EXCEPT ![h] =
                        IF outcome = "ok" THEN "success" ELSE "failed"]
                  /\ txEvents' = Append(txEvents,
                        [type |-> IF outcome = "ok"
                                  THEN "TRANSACTION_CONFIRMED" ELSE "ERROR",
                         txHash |-> h])
                  /\ pending' = deleteTx(pending, h)
                  /\ balanceCache' =
                        IF txTo(h) # ""
                        THEN invalidateBalanceCache(cleared, txTo(h))
                        ELSE cleared
             ELSE UNCHANGED <<txStatus, txEvents, pending, balanceCache>>
          /\ sweeps' = [sweeps EXCEPT ![s] =
                          sweepAdvance(sweeps[s], pending', h, outcome)]
    /\ UNCHANGED <<provider, receipts, regStoreVars, lifeVars, toolVars>>
    /\ UNCHANGED <<auth, nodeEnvTest, overlap, replica, local, walletPaths,
                   events, calls, known, lastSaved>>

\* HDWalletPlugin.destroy(): the plugin drops its reference to the manager;
\* cleanup() is not called
Destroy ==
    /\ hdWalletRef
    /\ hdWalletRef' = FALSE
    /\ UNCHANGED <<monitoring, identity, mainWallet, toolVars, regStoreVars,
                   txVars>>
    /\ UNCHANGED <<auth, nodeEnvTest, overlap, replica, local, walletPaths,
                   events, calls, known, lastSaved>>

\* ------------------------------------------------------- session actions
\* The mnemonic each identity owns
MnemonicOf(i) == IF i = "A" THEN "p1" ELSE "p2"

\* Addresses of identity B
B0 == derive("p2", BIP44Path(0))
B1 == derive("p2", BIP44Path(1))

\* The wallet-paths records of identity B
OtherReplicaPaths == {NoPathsRecord, PathsRecord((B0 :> BIP44Path(0)))}
OtherLocalPaths ==
    {NoPathsRecord,
     PathsRecord((B0 :> BIP44Path(0)) @@ (B1 :> BIP44Path(1)))}

\* auth:login of identity i with the listener of the plugin: the session
\* of i is open, the backends are those of i, and the listener starts the
\* rebuild of the registry (initializeWalletPaths up to its await)
PluginLogin(c, i) ==
    /\ ~auth
    /\ listenerServes
    /\ CanStart(c)
    /\ i = identity \/ identity = "A"
    /\ auth' = TRUE
    /\ identity' = i
    /\ IF i = identity
       THEN UNCHANGED <<replica, local, replicaPaths, localPaths>>
       ELSE /\ replica' = Enc("sea", MnemonicOf(i))
            /\ local' = [local EXCEPT !["pub"] = Enc("sea", MnemonicOf(i))]
            /\ replicaPaths' \in OtherReplicaPaths
            /\ \E r \in OtherLocalPaths :
                 localPaths' = [localPaths EXCEPT !["pub"] = r]
    /\ walletPaths' = rebuildReset(walletPaths)
    /\ SetCalls(c, [NewCall("rebuild", NoPhrase) EXCEPT !.pc = "rb_wait"])
    /\ known' = NoPhrase
    /\ lastSaved' = NoPhrase
    /\ lastRebuild' = NotRebuilt
    /\ UNCHANGED <<monitoring, hdWalletRef, mainWallet, toolVars, txVars>>
    /\ UNCHANGED <<nodeEnvTest, overlap, events>>

\* getMainWallet()
GetMainWallet(c) ==
    /\ CanStart(c)
    /\ LET w == mainWalletOf(mainWallet, auth, identity)
       IN /\ mainWallet' = w
          /\ SetCalls(c, [NewCall("getMainWallet", NoPhrase) EXCEPT
                            !.main = w, !.pc = "done",
                            !.error = IF w = "none"
                                      THEN "User not authenticated"
                                      ELSE "none"])
    /\ UNCHANGED <<monitoring, hdWalletRef, identity, toolVars, regStoreVars,
                   txVars>>
    /\ UNCHANGED <<auth, nodeEnvTest, overlap, replica, local, walletPaths,
                   events, known, lastSaved>>

\* getMainWalletCredentials(): always derived from the logged-in user's
\* credentials, and cached
GetMainWalletCredentials(c) ==
    /\ CanStart(c)
    /\ IF userIs(auth)
       THEN /\ mainWallet' = identity
            /\ SetCalls(c, [NewCall("getMainWalletCredentials", NoPhrase)
                              EXCEPT !.main = identity, !.pc = "done"])
       ELSE /\ mainWallet' = mainWallet
            /\ SetCalls(c, [NewCall("getMainWalletCredentials", NoPhrase)
                              EXCEPT !.error = "User not authenticated",
                                     !.pc = "done"])
    /\ UNCHANGED <<monitoring, hdWalletRef, identity, toolVars, regStoreVars,
                   txVars>>
    /\ UNCHANGED <<auth, nodeEnvTest, overlap, replica, local, walletPaths,
                   events, known, lastSaved>>

\* The pending maps the monitor scenarios start from
PendingInit == {<<>>, <<"h1">>, <<"h2">>, <<"h1", "h2">>, <<"h2", "h1">>}

\* A manager with tracked transactions and cached balances, no receipt yet
InitTx ==
    /\ auth = TRUE
    /\ nodeEnvTest = FALSE
    /\ overlap = FALSE
    /\ replica = NoValue
    /\ local = [i \in StorageIds |-> NoValue]
    /\ walletPaths = EmptyPaths
    /\ events = {}
    /\ calls = [c \in Calls |-> IdleCall]
    /\ known = NoPhrase
    /\ lastSaved = NoPhrase
    /\ NoWalletPathsStored
    /\ provider = FALSE
    /\ pending \in PendingInit
    /\ txStatus = [h \in TxHashes |-> "pending"]
    /\ balanceCache \in SUBSET CacheKeys
    /\ txEvents = <<>>
    /\ receipts = [h \in TxHashes |-> "none"]
    /\ sweeps = [s \in Sweeps |-> IdleSweep]
    /\ PluginInitialised

NextTx ==
    \/ SetRpcUrl
    \/ \E h \in TxHashes, r \in {"ok", "reverted"} : ReceiptArrives(h, r)
    \/ \E s \in Sweeps : SweepStart(s)
    \/ \E s \in Sweeps, rejects \in BOOLEAN : SweepStep(s, rejects)
    \/ Logout
    \/ Destroy

SpecTx == InitTx /\ [][NextTx]_vars

\* Addresses of the registry scenarios
A0 == derive("p1", BIP44Path(0))
A1 == derive("p1", BIP44Path(1))

\* What user.get("wallet_paths") holds at the start
ReplicaPathsInit ==
    {NoPathsRecord,
     PathsRecord((A0 :> BIP44Path(0))),
     PathsRecord((A0 :> BIP44Path(0)) @@ (A1 :> NoPath))}

\* What shogun_wallet_paths_<id> holds at the start
LocalPathsInit ==
    {NoPathsRecord,
     GarbledPaths,
     PathsRecord((A1 :> BIP44Path(1))),
     PathsRecord((A0 :> BIP44Path(1)) @@ (A1 :> BadPath))}

\* The wallet lists handed to importWalletKeys
ImportInputs ==
    {<<[address |-> A0, path |-> BIP44Path(0)]>>,
     <<[address |-> A1, path |-> BIP44Path(1)],
       [address |-> A1, path |-> BIP44Path(0)]>>}

\* A manager constructed on backends that hold a mnemonic and wallet paths:
\* the constructor's initWalletPathsSync has loaded the local record
InitRegistry ==
    /\ auth \in BOOLEAN
    /\ nodeEnvTest = FALSE
    /\ overlap = FALSE
    /\ replica \in {NoValue, Enc("sea", "p1")}
    /\ \E v \in {NoValue, Enc(KeyOf(auth), "p1")} :
         local = [i \in StorageIds |->
                    IF i = getStorageUserIdentifier(auth) THEN v ELSE NoValue]
    /\ replicaPaths \in ReplicaPathsInit
    /\ \E r \in LocalPathsInit :
         localPaths = [i \in StorageIds |->
                         IF i = getStorageUserIdentifier(auth) THEN r
                         ELSE NoPathsRecord]
    /\ walletPaths = loadWalletPathsFromLocalStorage(EmptyPaths,
                         localPaths[getStorageUserIdentifier(auth)])
    /\ lastRebuild = NotRebuilt
    /\ events = {}
    /\ calls = [c \in Calls |-> IdleCall]
    /\ known = NoPhrase
    /\ lastSaved = NoPhrase
    /\ MonitorQuiet
    /\ PluginInitialised

NextRegistry ==
    \/ \E c \in Calls :
         \/ RebuildStart(c)
         \/ \E answers \in BOOLEAN : RebuildGunAnswer(c, answers)
         \/ RebuildLocal(c)
         \/ \E ws \in ImportInputs, parses \in BOOLEAN :
              ImportWalletKeys(c, ws, parses)
         \/ RegCreateStart(c)
         \/ LoadStart(c)
         \/ SaveStart(c, "import", "p2")
         \/ GetReplicaResolve(c, FALSE)
         \/ GetSync(c)
         \/ CreateResolved(c)
         \/ LoadResolved(c)
         \/ SavePut(c)
         \/ SaveLocal(c)
         \/ Return(c)

\* A plugin initialised for identity A, logged in, with A's mnemonic in
\* both backends
InitSession ==
    /\ auth = TRUE
    /\ nodeEnvTest = FALSE
    /\ overlap = FALSE
    /\ replica = Enc("sea", MnemonicOf("A"))
    /\ local = [i \in StorageIds |->
                 IF i = "pub" THEN Enc("sea", MnemonicOf("A")) ELSE NoValue]
    /\ replicaPaths \in ReplicaPathsInit
    /\ \E r \in LocalPathsInit :
         localPaths = [i \in StorageIds |->
                         IF i = "pub" THEN r ELSE NoPathsRecord]
    /\ walletPaths = loadWalletPathsFromLocalStorage(EmptyPaths,
                                                     localPaths["pub"])
    /\ lastRebuild = NotRebuilt
    /\ events = {}
    /\ calls = [c \in Calls |-> IdleCall]
    /\ known = NoPhrase
    /\ lastSaved = NoPhrase
    /\ MonitorQuiet
    /\ PluginInitialised

NextSession ==
    \/ Logout
    \/ \E c \in Calls :
         \/ \E i \in Identities : PluginLogin(c, i)
         \/ \E answers \in BOOLEAN : RebuildGunAnswer(c, answers)
         \/ RebuildLocal(c)
         \/ RegCreateStart(c)
         \/ GetReplicaResolve(c, FALSE)
         \/ CreateResolved(c)
         \/ SaveLocal(c)
         \/ GetMainWallet(c)
         \/ GetMainWalletCredentials(c)
         \/ Return(c)

SpecSession == InitSession /\ [][NextSession]_vars

SpecRegistry == InitRegistry /\ [][NextRegistry]_vars

\* ------------------------------------------------ helpers and configuration
\* count = 5 of getStandardBIP44Addresses
DefaultCount == 5

standardAddressesFromOne(m, count) ==
    [i \in 1..(IF count > 0 THEN count ELSE 0) |-> derive(m, BIP44Path(i))]
\* The list getStandardBIP44Addresses builds: one push per i = 0 .. count - 1
standardAddresses(m, count) ==
    [i \in 1..(IF count > 0 THEN count ELSE 0) |->
        derive(m, BIP44Path(i - 1))]

\* getStandardBIP44Addresses(mnemonic, count); ethers rejects the phrase on
\* the first turn of the loop
GetStandardBIP44Addresses(m, given, n) ==
    LET count == IF given THEN n ELSE DefaultCount
    IN /\ tool' = IF count > 0 /\ ~CanDerive(m)
                  THEN [fn |-> "getStandardBIP44Addresses", input |-> m,
                        count |-> count, output |-> <<>>,
                        error |-> "invalid mnemonic"]
                  ELSE [fn |-> "getStandardBIP44Addresses", input |-> m,
                        count |-> count,
                        output |-> standardAddresses(m, count),
                        error |-> "none"]
       /\ UNCHANGED <<replica, local, regStoreVars, txVars, lifeVars, aaVars, plugVars,
                      aaConfig,
                      walletPaths, events, calls, known, lastSaved, auth,
                      nodeEnvTest, overlap>>

\* The phrase returned when the random wallet carries none
FallbackPhrase == "test phrase for development"

\* Number of words of a phrase
WordCount(p) ==
    CASE p \in ValidPhrases -> 12
      [] p = FallbackPhrase -> 4
      [] OTHER -> 6

generateFallbackOnly(libraryPhrase) == FallbackPhrase
\* wallet.mnemonic?.phrase || "test phrase for development"
generateNewMnemonic(libraryPhrase) ==
    IF libraryPhrase # NoPhrase THEN libraryPhrase ELSE FallbackPhrase

\* generateNewMnemonic(): ethers.Wallet.createRandom() draws the entropy and
\* always carries the phrase made from it
GenerateNewMnemonic(p) ==
    /\ tool' = [fn |-> "generateNewMnemonic", input |-> <<>>, count |-> 0,
                output |-> generateNewMnemonic(p), error |-> "none"]
    /\ UNCHANGED <<replica, local, regStoreVars, txVars, lifeVars, aaVars, plugVars,
                      aaConfig,
                   walletPaths, events, calls, known, lastSaved, auth,
                   nodeEnvTest, overlap>>

\* Code points of the input strings: "a", "b", "c" and e-acute
CodePoints == {97, 98, 99, 233}

RECURSIVE StringsUpTo(_)
StringsUpTo(n) ==
    IF n = 0 THEN {<<>>}
    ELSE StringsUpTo(n - 1)
         \cup {<<ch>> \o t : ch \in CodePoints,
                             t \in {u \in StringsUpTo(n - 1) : Len(u) = n - 1}}

InputStrings == StringsUpTo(MaxInput)

\* generatePrivateKeyFromString(input)
GeneratePrivateKeyFromString(input) ==
    /\ tool' = [fn |-> "generatePrivateKeyFromString", input |-> input,
                count |-> 0,
                output |-> generatePrivateKeyFromString(input),
                error |-> "none"]
    /\ UNCHANGED <<replica, local, regStoreVars, txVars, lifeVars, aaVars, plugVars,
                      aaConfig,
                   walletPaths, events, calls, known, lastSaved, auth,
                   nodeEnvTest, overlap>>

\* Values handed to the configuration methods
PaymasterAddresses == {"", "0xPaymaster"}
ExamplePaymaster == "0x1234567890123456789012345678901234567890"
PlaceholderUrl == "https://bundler.alchemyapi.io/v2/YOUR_API_KEY"
BundlerUrls == {"", "https://bundler.example"}
ApiKeys == {"", "YOUR_API_KEY", "KEY1"}
PaymasterDatas == {"0x", "0xab", "ab"}

\* `https://bundler.alchemyapi.io/v2/${apiKey}`
alchemyUrl(apiKey) ==
    IF apiKey = "KEY1" THEN "https://bundler.alchemyapi.io/v2/KEY1"
    ELSE PlaceholderUrl

\* data.startsWith("0x") ? data : "0x" + data
withPrefix(data) == IF data = "ab" THEN "0xab" ELSE data

\* JavaScript truthiness of an optional string
truthy(v) == v # Unset /\ v # ""

Configured(fn) ==
    /\ tool' = [fn |-> fn, input |-> <<>>, count |-> 0, output |-> <<>>,
                error |-> "none"]
    /\ UNCHANGED <<replica, local, regStoreVars, txVars, lifeVars, aaVars, plugVars,
                   walletPaths, events, calls, known, lastSaved, auth,
                   nodeEnvTest, overlap>>

SetPaymaster(a) ==
    /\ aaConfig' = [aaConfig EXCEPT !.paymasterAddress = a]
    /\ Configured("setPaymaster")

SetPaymasterWithData(a, d) ==
    /\ aaConfig' = [aaConfig EXCEPT !.paymasterAddress = a,
                                    !.paymasterData = d]
    /\ Configured("setPaymasterWithData")

SetPaymasterData(d) ==
    /\ aaConfig' = [aaConfig EXCEPT !.paymasterData = withPrefix(d)]
    /\ Configured("setPaymasterData")

SetBundler(u) ==
    /\ aaConfig' = [aaConfig EXCEPT !.bundlerUrl = u]
    /\ Configured("setBundler")

SetupGaslessTransactions ==
    /\ aaConfig' = [aaConfig EXCEPT !.bundlerUrl = PlaceholderUrl,
                                    !.paymasterAddress = ExamplePaymaster]
    /\ Configured("setupGaslessTransactions")

SetupSelfFundedTransactions ==
    /\ aaConfig' = [aaConfig EXCEPT !.bundlerUrl = PlaceholderUrl,
                                    !.paymasterAddress = Unset]
    /\ Configured("setupSelfFundedTransactions")

SetupAlchemyBundler(apiKey) ==
    IF apiKey = "" \/ apiKey = "YOUR_API_KEY"
    THEN /\ tool' = [fn |-> "setupAlchemyBundler", input |-> <<>>,
                     count |-> 0, output |-> <<>>,
                     error |-> "Alchemy API key required"]
         /\ UNCHANGED <<replica, local, regStoreVars, txVars, lifeVars, aaVars, plugVars,
                      aaConfig,
                        walletPaths, events, calls, known, lastSaved, auth,
                        nodeEnvTest, overlap>>
    ELSE /\ aaConfig' = [aaConfig EXCEPT !.bundlerUrl = alchemyUrl(apiKey)]
         /\ Configured("setupAlchemyBundler")

\* setupAlchemyWithPaymaster: the bundler first, and the paymaster only when
\* the key was accepted
SetupAlchemyWithPaymaster(apiKey, a) ==
    IF apiKey = "" \/ apiKey = "YOUR_API_KEY"
    THEN /\ tool' = [fn |-> "setupAlchemyWithPaymaster", input |-> <<>>,
                     count |-> 0, output |-> <<>>,
                     error |-> "Alchemy API key required"]
         /\ UNCHANGED <<replica, local, regStoreVars, txVars, lifeVars, aaVars, plugVars,
                      aaConfig,
                        walletPaths, events, calls, known, lastSaved, auth,
                        nodeEnvTest, overlap>>
    ELSE /\ aaConfig' = [aaConfig EXCEPT !.bundlerUrl = alchemyUrl(apiKey),
                                         !.paymasterAddress = a]
         /\ Configured("setupAlchemyWithPaymaster")

\* !!(this.config.paymasterAddress || this.config.bundlerUrl)
isGaslessEnabled(config) ==
    truthy(config.paymasterAddress) \/ truthy(config.bundlerUrl)

IsGaslessEnabled ==
    /\ tool' = [fn |-> "isGaslessEnabled", input |-> <<>>, count |-> 0,
                output |-> isGaslessEnabled(aaConfig), error |-> "none"]
    /\ UNCHANGED <<replica, local, regStoreVars, txVars, lifeVars, aaVars, plugVars,
                      aaConfig,
                   walletPaths, events, calls, known, lastSaved, auth,
                   nodeEnvTest, overlap>>

\* A plugin constructed without account-abstraction options, before any call
InitHelpers ==
    /\ auth = TRUE
    /\ nodeEnvTest = FALSE
    /\ overlap = FALSE
    /\ replica = NoValue
    /\ local = [i \in StorageIds |-> NoValue]
    /\ walletPaths = EmptyPaths
    /\ events = {}
    /\ calls = [c \in Calls |-> IdleCall]
    /\ known = NoPhrase
    /\ lastSaved = NoPhrase
    /\ NoWalletPathsStored
    /\ MonitorQuiet
    /\ PluginInitialised

\* The synchronous helpers of the wallet manager
NextHelpers ==
    \/ \E m \in Phrases \cup {FallbackPhrase}, given \in BOOLEAN,
            n \in 0..MaxCount :
         GetStandardBIP44Addresses(m, given, n)
    \/ \E p \in ValidPhrases : GenerateNewMnemonic(p)
    \/ \E input \in InputStrings : GeneratePrivateKeyFromString(input)

SpecHelpers == InitHelpers /\ [][NextHelpers]_vars

\* A plugin constructed with or without a paymaster and a bundler in its
\* options, before any call
InitConfig ==
    /\ auth = TRUE
    /\ nodeEnvTest = FALSE
    /\ overlap = FALSE
    /\ replica = NoValue
    /\ local = [i \in StorageIds |-> NoValue]
    /\ walletPaths = EmptyPaths
    /\ events = {}
    /\ calls = [c \in Calls |-> IdleCall]
    /\ known = NoPhrase
    /\ lastSaved = NoPhrase
    /\ NoWalletPathsStored
    /\ MonitorQuiet
    /\ monitoring = TRUE
    /\ hdWalletRef = TRUE
    /\ identity = "A"
    /\ mainWallet = "none"
    /\ \E a \in {Unset, "0xPaymaster"}, u \in {Unset, "https://bundler.example"} :
         aaConfig = [InitialConfig EXCEPT !.paymasterAddress = a,
                                          !.bundlerUrl = u]
    /\ tool = NoTool
    /\ NoContracts
    /\ PluginWired

\* The configuration methods of the account-abstraction plugin
NextConfig ==
    \/ \E a \in PaymasterAddresses : SetPaymaster(a)
    \/ \E a \in PaymasterAddresses, d \in PaymasterDatas :
         SetPaymasterWithData(a, d)
    \/ \E d \in PaymasterDatas : SetPaymasterData(d)
    \/ \E u \in BundlerUrls : SetBundler(u)
    \/ SetupGaslessTransactions
    \/ SetupSelfFundedTransactions
    \/ \E k \in ApiKeys : SetupAlchemyBundler(k)
    \/ \E k \in ApiKeys, a \in PaymasterAddresses :
         SetupAlchemyWithPaymaster(k, a)
    \/ IsGaslessEnabled

SpecConfig == InitConfig /\ [][NextConfig]_vars

\* ------------------------------------------------------- account abstraction
\* Values of options.paymaster
OptionPaymasters == {Unset, "0xOptionPaymaster"}

\* this.paymasterData without its "0x"
stripPrefix(d) == IF d = "0x" THEN "" ELSE IF d = "0xab" THEN "ab" ELSE d

\* getPaymasterAndData(options): the option, else the configured paymaster
\* followed by its data, else "0x"
getPaymasterAndData(optPaymaster, config) ==
    IF truthy(optPaymaster)
    THEN [paymaster |-> optPaymaster, data |-> ""]
    ELSE IF truthy(config.paymasterAddress)
    THEN [paymaster |-> config.paymasterAddress,
          data |-> stripPrefix(config.paymasterData)]
    ELSE [paymaster |-> "0x", data |-> ""]

\* The UserOperation sendUserOperation builds, not yet signed
buildUserOp(kind, nonce, pmd) ==
    [callData |-> kind, nonce |-> nonce, paymasterAndData |-> pmd,
     signature |-> [signer |-> "none", over |-> "0x"]]

\* entryPointContract.getUserOpHash(userOp) and mainWallet.signMessage(hash)
getUserOpHash(userOp) ==
    [callData |-> userOp.callData, nonce |-> userOp.nonce,
     paymasterAndData |-> userOp.paymasterAndData]
signMessage(w, hash) == [signer |-> w, over |-> hash]

\* The methods that end in sendUserOperation, with the call data they encode
SendKinds == {"sendUserOperation", "executeTransaction", "executeBatch"}

Answer(fn, out, err) ==
    tool' = [fn |-> fn, input |-> <<>>, count |-> 0, output |-> out,
             error |-> err]

\* `if (this.config.bundlerUrl)` of sendUserOperation
sendViaBundler(config) == truthy(config.bundlerUrl)

\* sendUserOperation(sender, callData, options), also reached through
\* executeTransaction and executeBatch.  nonceFails: getNonce rejects and 0n
\* is used; hashFails: getUserOpHash rejects; accepted: the Bundler answers
\* with a hash; funds: the signer has a balance
SendUserOperation(kind, optPaymaster, nonceFails, hashFails, accepted, funds) ==
    /\ hdWalletRef
    /\ Cardinality(userOps) < MaxOps
    /\ LET w == mainWalletOf(mainWallet, auth, identity)
           unsigned == buildUserOp(kind, IF nonceFails THEN 0 ELSE 1,
                                   getPaymasterAndData(optPaymaster,
                                                       aaConfig))
           userOp == [unsigned EXCEPT
                        !.signature = signMessage(w, getUserOpHash(unsigned))]
       IN IF ~entryPoint
          THEN /\ Answer(kind, "none", "EntryPoint not configured")
               /\ UNCHANGED <<userOps, mainWallet>>
          ELSE IF hashFails
          THEN /\ Answer(kind, "none", "getUserOpHash failed")
               /\ UNCHANGED <<userOps, mainWallet>>
          ELSE IF w = "none"
          THEN /\ Answer(kind, "none", "User not authenticated")
               /\ UNCHANGED <<userOps, mainWallet>>
          ELSE IF sendViaBundler(aaConfig)
          THEN /\ userOps' = userOps \cup {[op |-> userOp, via |-> "bundler"]}
               /\ mainWallet' = w
               /\ IF accepted THEN Answer(kind, "userOpHash", "none")
                  ELSE Answer(kind, "none", "Bundler error")
          ELSE IF ~provider
          THEN /\ Answer(kind, "none",
                         "Provider not available for direct sending")
               /\ mainWallet' = w
               /\ UNCHANGED userOps
          ELSE IF ~funds
          THEN /\ Answer(kind, "none", "Signer has no funds to pay gas fees")
               /\ mainWallet' = w
               /\ UNCHANGED userOps
          ELSE /\ userOps' = userOps
                     \cup {[op |-> userOp, via |-> "entryPoint.handleOps"]}
               /\ mainWallet' = w
               /\ Answer(kind, "receipt.hash", "none")
    /\ UNCHANGED <<replica, local, regStoreVars, txVars, monitoring,
                   hdWalletRef, identity, aaConfig, entryPoint, factory,
                   smartAccounts, plugVars, walletPaths, events, calls,
                   known, lastSaved, auth, nodeEnvTest, overlap>>

\* setAccountFactory(address): initializeContracts builds the contract
\* objects when there is a provider, the factory for a non-zero address
SetAccountFactory(zero) ==
    /\ hdWalletRef
    /\ entryPoint' = (entryPoint \/ provider)
    /\ factory' = (factory \/ (provider /\ ~zero))
    /\ smartAccounts' = [i \in SmartIndices |-> {}]
    /\ Answer("setAccountFactory", "none", "none")
    /\ UNCHANGED <<replica, local, regStoreVars, txVars, lifeVars, aaConfig,
                   plugVars, userOps, walletPaths, events, calls, known, lastSaved,
                   auth, nodeEnvTest, overlap>>

\* The address of the simulation and the address the factory computes
generateDeterministicAddress(owner, index) ==
    [kind |-> "simulated", owner |-> owner, index |-> index]
factoryGetAddress(owner, salt) ==
    [kind |-> "factory", owner |-> owner, index |-> salt]

\* getOrCreateSmartAccount(index) up to the mnemonic read
SmartStart(c, index) ==
    /\ CanStart(c)
    /\ hdWalletRef
    /\ LET new == EnterGet([NewCall("smart", NoPhrase) EXCEPT
                              !.path = BIP44Path(index), !.count = index])
       IN /\ SetCalls(c, new)
          /\ known' = KnownAfter(new)
    /\ UNCHANGED <<regStoreVars, txVars, lifeVars, toolVars>>
    /\ UNCHANGED <<auth, nodeEnvTest, overlap, replica, local, walletPaths,
                   events, lastSaved>>

\* The address getOrCreateSmartAccount returns for an owner key.  outcome:
\* "exists" (the computed address has a balance), "created" (createAccount
\* and its receipt succeed), "failed" (a factory or provider call rejects)
smartAccountAddress(owner, index, hasFactory, outcome) ==
    IF ~hasFactory THEN generateDeterministicAddress(owner, index)
    ELSE IF outcome = "failed"
    THEN generateDeterministicAddress(owner, index)
    ELSE factoryGetAddress(owner, owner)

\* getOrCreateSmartAccount after the mnemonic read
SmartResolved(c, outcome) ==
    /\ calls[c].pc = "sa_resolved"
    /\ LET cr == calls[c]
           owner == derive(cr.mnemonic, cr.path)
       IN IF cr.mnemonic = NoPhrase
          THEN /\ SetCalls(c, [cr EXCEPT
                     !.error = "Mnemonic not available to derive account.",
                     !.pc = "done"])
               /\ UNCHANGED smartAccounts
          ELSE IF ~CanDerive(cr.mnemonic)
          THEN /\ SetCalls(c, [cr EXCEPT !.error = "invalid mnemonic",
                                         !.pc = "done"])
               /\ UNCHANGED smartAccounts
          ELSE LET a == smartAccountAddress(owner, cr.count, factory, outcome)
               IN /\ SetCalls(c, [cr EXCEPT !.address = a, !.pc = "done"])
                  /\ smartAccounts' =
                       [smartAccounts EXCEPT ![cr.count] = @ \cup {a}]
    /\ UNCHANGED <<regStoreVars, txVars, lifeVars, aaConfig, tool, plugVars,
                   entryPoint, factory, userOps>>
    /\ UNCHANGED <<auth, nodeEnvTest, overlap, replica, local, walletPaths,
                   events, known, lastSaved>>

\* An initialised plugin of identity A whose backends hold A's mnemonic,
\* with or without provider, factory, bundler and paymaster
InitAccount ==
    /\ auth \in BOOLEAN
    /\ nodeEnvTest = FALSE
    /\ overlap = FALSE
    /\ replica = Enc("sea", MnemonicOf("A"))
    /\ local = [i \in StorageIds |->
                 IF i = "pub" THEN Enc("sea", MnemonicOf("A")) ELSE NoValue]
    /\ walletPaths = EmptyPaths
    /\ events = {}
    /\ calls = [c \in Calls |-> IdleCall]
    /\ known = NoPhrase
    /\ lastSaved = NoPhrase
    /\ NoWalletPathsStored
    /\ provider \in BOOLEAN
    /\ pending = <<>>
    /\ txStatus = [h \in TxHashes |-> "pending"]
    /\ balanceCache = {}
    /\ txEvents = <<>>
    /\ receipts = [h \in TxHashes |-> "none"]
    /\ sweeps = [s \in Sweeps |-> IdleSweep]
    /\ monitoring = TRUE
    /\ hdWalletRef = TRUE
    /\ identity = "A"
    /\ mainWallet = "none"
    /\ \E a \in {Unset, "0xPaymaster"}, u \in {Unset, "https://bundler.example"} :
         aaConfig = [InitialConfig EXCEPT !.paymasterAddress = a,
                                          !.bundlerUrl = u]
    /\ tool = NoTool
    /\ rpcUrl = IF provider THEN "https://rpc.one" ELSE NoUrl
    /\ listeners = TRUE
    /\ initResult = "ok"
    /\ entryPoint = provider
    /\ factory \in {f \in BOOLEAN : f => provider}
    /\ userOps = {}
    /\ smartAccounts = [i \in SmartIndices |-> {}]

\* The sending of UserOperations
NextUserOp ==
    \/ \E kind \in SendKinds, o \in OptionPaymasters,
          nonceFails, hashFails, accepted, funds \in BOOLEAN :
         SendUserOperation(kind, o, nonceFails, hashFails, accepted, funds)
    \/ \E zero \in BOOLEAN : SetAccountFactory(zero)

SpecUserOp == InitAccount /\ [][NextUserOp]_vars

\* The calls of getOrCreateSmartAccount, one at a time
NextSmart ==
    \/ \E zero \in BOOLEAN : SetAccountFactory(zero)
    \/ \E c \in Calls :
         \/ \E i \in SmartIndices : SmartStart(c, i)
         \/ \E t \in BOOLEAN : GetReplicaResolve(c, t)
         \/ GetSync(c)
         \/ \E o \in {"exists", "created", "failed"} : SmartResolved(c, o)
         \/ Return(c)

SpecSmart == InitAccount /\ [][NextSmart]_vars

\* ---------------------------------------------------- overlapping creates
\* A logged-in identity whose backends are both empty or both hold the
\* mnemonic, with a caller that starts createWallet() while another is in
\* flight
InitCreates ==
    /\ InitOverlap
    /\ auth /\ ~nodeEnvTest
    /\ replica \in {NoValue, Enc("sea", "p1")}
    /\ local["pub"] = replica

NextCreates ==
    \E c \in Calls :
      \/ CreateStart(c)
      \/ \E t \in BOOLEAN : GetReplicaResolve(c, t)
      \/ GetSync(c)
      \/ CreateResolved(c)
      \/ SavePut(c)
      \/ SaveLocal(c)
      \/ Return(c)

SpecCreates == InitCreates /\ [][NextCreates]_vars

\* ------------------------------------------------------------ forced sync
\* forceMnemonicSync() of the plugin: false without a manager; else the
\* manager runs the reconcile of getUserMasterMnemonic
ForceStart(c) ==
    /\ CanStart(c)
    /\ LET new == IF hdWalletRef
                  THEN EnterGet(NewCall("force", NoPhrase))
                  ELSE [NewCall("force", NoPhrase) EXCEPT !.pc = "done"]
       IN /\ SetCalls(c, new)
          /\ known' = KnownAfter(new)
    /\ UNCHANGED <<regStoreVars, txVars, lifeVars, toolVars>>
    /\ UNCHANGED <<auth, nodeEnvTest, overlap, replica, local, walletPaths,
                   events, lastSaved>>

\* Whether both backends hold a value for the identity
bothHold(a, r, l) == userIs(a) /\ r # NoValue /\ l # NoValue

\* The reconcile has returned: the result is whether both backends ended
\* up holding a value
ForceResolved(c) ==
    /\ calls[c].pc = "fs_resolved"
    /\ SetCalls(c, [calls[c] EXCEPT
           !.synced = bothHold(auth, replica,
                               local[getStorageUserIdentifier(auth)]),
           !.pc = "done"])
    /\ UNCHANGED <<regStoreVars, txVars, lifeVars, toolVars>>
    /\ UNCHANGED <<auth, nodeEnvTest, overlap, replica, local, walletPaths,
                   events, known, lastSaved>>

\* Any stored values, one caller at a time, outside the test shim
InitSync == InitCommon /\ overlap = FALSE /\ nodeEnvTest = FALSE

NextSync ==
    \/ Login
    \/ Logout
    \/ Destroy
    \/ \E c \in Calls :
         \/ ForceStart(c)
         \/ \E t \in BOOLEAN : GetReplicaResolve(c, t)
         \/ GetSync(c)
         \/ ForceResolved(c)
         \/ Return(c)

SpecSync == InitSync /\ [][NextSync]_vars

\* The rebuild alone; a step of the program that is enabled is taken, the
\* callback of the replica store is not owed
NextRebuild ==
    \E c \in Calls :
        \/ RebuildStart(c)
        \/ \E answers \in BOOLEAN : RebuildGunAnswer(c, answers)
        \/ RebuildLocal(c)
        \/ Return(c)

SpecRebuild ==
    /\ InitRegistry
    /\ [][NextRebuild]_vars
    /\ \A c \in Calls : WF_vars(RebuildLocal(c))

SpecOverlap == InitOverlap /\ [][Next]_vars

\* ------------------------------------------------------------- properties
Finished(c, op) == calls[c].op = op /\ calls[c].pc = "done"

\* A stored value the encryption step produced
IsEnvelope(v) == v.kind \in {"enc", "unencrypted"}

\* C1: when the replica store holds an encrypted mnemonic of the
\* authenticated identity and the local cache holds none, a
\* getUserMasterMnemonic() the replica answers returns the decrypted phrase
\* and, once it has returned, the local cache holds a copy that decrypts to
\* the same phrase.
C1_ReplicaReadPopulatesLocal ==
    \A c \in Calls :
      ( /\ Finished(c, "get") /\ calls[c].authStable /\ auth
        /\ calls[c].answered
        /\ decryptSensitiveData(calls[c].preReplica, auth) # NoPhrase
        /\ calls[c].preLocal = NoValue )
      => /\ calls[c].mnemonic = decryptSensitiveData(calls[c].preReplica, auth)
         /\ decryptSensitiveData(local[getStorageUserIdentifier(auth)], auth)
              = calls[c].mnemonic

\* C2: when the replica store answers with a value that does not decrypt
\* and the local cache holds a value that decrypts to s,
\* getUserMasterMnemonic() returns s.
C2_UndecryptableReplicaFallsBack ==
    \A c \in Calls :
      ( /\ Finished(c, "get") /\ calls[c].authStable /\ auth
        /\ calls[c].answered
        /\ calls[c].preReplica # NoValue
        /\ decryptSensitiveData(calls[c].preReplica, auth) = NoPhrase
        /\ decryptSensitiveData(calls[c].preLocal, auth) # NoPhrase )
      => calls[c].mnemonic = decryptSensitiveData(calls[c].preLocal, auth)

\* C3: every value an operation writes under the master-mnemonic key of the
\* replica store or of the local cache is an output of the encryption step;
\* the raw phrase is never written.
C3_WritesAreEncrypted ==
    [][ /\ replica' # replica => IsEnvelope(replica')
        /\ \A i \in StorageIds : local'[i] # local[i] => IsEnvelope(local'[i])
      ]_vars

\* C4: once getUserMasterMnemonic() has returned s for the identity, and
\* with no import, explicit save or identity change since, a
\* getUserMasterMnemonic() the replica answers still returns s and
\* createWallet() mints no mnemonic.
C4_MnemonicNeverMutated ==
    \A c \in Calls :
      ( /\ calls[c].authStable /\ auth /\ ~nodeEnvTest
        /\ calls[c].preKnown # NoPhrase )
      => /\ (Finished(c, "get") /\ calls[c].answered)
              => calls[c].mnemonic = calls[c].preKnown
         /\ calls[c].op = "create" => ~calls[c].minted

\* C5: a getUserMasterMnemonic() whose replica query times out proceeds as
\* with an absent replica value: it returns what the local cache value
\* decrypts to (absent when there is none) and raises no error.
C5_TimeoutIsAbsent ==
    \A c \in Calls :
      (Finished(c, "get") /\ calls[c].timedOut /\ calls[c].authStable)
      => /\ calls[c].error = "none"
         /\ calls[c].mnemonic = decryptSensitiveData(calls[c].preLocal, auth)
         /\ calls[c].fromLocal <=> calls[c].preLocal # NoValue

C5_Witness ==
    \E c \in Calls :
      /\ Finished(c, "get") /\ calls[c].timedOut /\ calls[c].authStable
      /\ calls[c].mnemonic # NoPhrase
      /\ decryptSensitiveData(calls[c].preReplica, auth) # NoPhrase
      /\ decryptSensitiveData(calls[c].preReplica, auth) # calls[c].mnemonic

\* C6: when getUserMasterMnemonic() has the phrase from the local cache and
\* the repair put to the replica store fails, it still returns the phrase,
\* raises no error and leaves the local cache as it was.
C6_RepairFailureKeepsRead ==
    \A c \in Calls :
      ( /\ Finished(c, "get") /\ calls[c].authStable
        /\ calls[c].fromLocal /\ calls[c].putFailed )
      => /\ calls[c].mnemonic # NoPhrase
         /\ calls[c].mnemonic = decryptSensitiveData(calls[c].preLocal, auth)
         /\ calls[c].error = "none"
         /\ local[getStorageUserIdentifier(auth)] = calls[c].preLocal

C6_Witness ==
    \E c \in Calls :
      /\ Finished(c, "get") /\ calls[c].authStable
      /\ calls[c].fromLocal /\ calls[c].putFailed
      /\ calls[c].mnemonic \in ValidPhrases

C9_UnauthenticatedCreateRejected ==
    [][ \A c \in Calls :
          (calls[c].pc = "idle" /\ calls'[c].op = "create" /\ ~auth)
          => /\ calls'[c].pc = "done"
             /\ calls'[c].error = "User not authenticated"
             /\ ~calls'[c].minted
             /\ calls'[c].address = NoAddress
             /\ replica' = replica /\ local' = local
             /\ walletPaths' = walletPaths /\ events' = events
      ]_vars

C9_Witness ==
    \E c \in Calls :
      /\ Finished(c, "create") /\ ~auth /\ calls[c].authStable
      /\ calls[c].error = "User not authenticated"

\* C10: in a createWallet() execution no path is allocated while the
\* mnemonic is still being resolved, and a wallet is returned only when a
\* backend holds the mnemonic it was derived from.
C10_ResolutionPrecedesAllocation ==
    \A c \in Calls :
      calls[c].op = "create"
      => /\ calls[c].pc \in {"gm_wait", "gm_sync"} => calls[c].path = NoPath
         /\ ( /\ calls[c].pc = "done" /\ calls[c].error = "none"
              /\ calls[c].authStable /\ ~nodeEnvTest )
            => \/ decryptSensitiveData(replica, auth) = calls[c].mnemonic
               \/ decryptSensitiveData(
                     local[getStorageUserIdentifier(auth)], auth)
                    = calls[c].mnemonic

\* ------------------------------------------------------ registry claims
\* C11: a successful createWallet() that starts from a registry of size n
\* returns the path m/44'/60'/0'/0/n, and that path equals no path the
\* registry already records.
C11_PathAllocationMonotonic ==
    \A c \in Calls :
      (Finished(c, "create") /\ calls[c].error = "none")
      => /\ calls[c].path = BIP44Path(calls[c].preSize)
         /\ calls[c].path \notin calls[c].prePaths

\* C12: after a successful createWallet() the new entry is in the
\* wallet-paths record of the replica store and of the local cache.
C12_EntriesPersistedRedundantly ==
    \A c \in Calls :
      (Finished(c, "create") /\ calls[c].error = "none")
      => /\ calls[c].address \in GunEntries(replicaPaths)
         /\ replicaPaths.entries[calls[c].address] = calls[c].path
         /\ localPaths[getStorageUserIdentifier(auth)].kind = "map"
         /\ calls[c].address \in
              DOMAIN localPaths[getStorageUserIdentifier(auth)].entries

\* The replica record a finished rebuild was given
SeenByRebuild(c) ==
    IF calls[c].sawReplica THEN replicaPaths ELSE NoPathsRecord

\* The entries of a local-cache record that parses
LocalEntries(rec) == IF rec.kind = "map" THEN DOMAIN rec.entries ELSE {}

\* C13: after initializeWalletPaths() the registry holds exactly the
\* addresses of the replica entries and of the local-cache entries; an
\* address the replica has an entry for carries the replica's path, any
\* other address the local cache's path.
C13_RebuildMergesReplicaFirst ==
    \A c \in Calls :
      Finished(c, "rebuild")
      => LET R == SeenByRebuild(c)
             L == localPaths[getStorageUserIdentifier(auth)]
         IN /\ DOMAIN walletPaths = GunEntries(R) \cup LocalEntries(L)
            /\ \A a \in DOMAIN walletPaths :
                 walletPaths[a] = IF a \in GunEntries(R)
                                  THEN R.entries[a] ELSE L.entries[a]

C13_Witness ==
    \E c \in Calls :
      /\ Finished(c, "rebuild") /\ calls[c].sawReplica
      /\ LET L == localPaths[getStorageUserIdentifier(auth)]
         IN /\ \E a \in GunEntries(replicaPaths) \cap LocalEntries(L) :
                 replicaPaths.entries[a] # L.entries[a]
            /\ LocalEntries(L) \ GunEntries(replicaPaths) # {}

\* C14: a rebuild that follows a completed rebuild with the same answer of
\* the replica store produces the same registry, whatever the registry
\* held in between; and loading the local cache first and the replica
\* record second gives the registry that the opposite order gives.
C14_RebuildIdempotentAnyOrder ==
    /\ \A c \in Calls :
         ( /\ Finished(c, "rebuild") /\ calls[c].preRebuild.done
           /\ calls[c].preRebuild.sawReplica = calls[c].sawReplica )
         => walletPaths = calls[c].preRebuild.reg
    /\ LET L == localPaths[getStorageUserIdentifier(auth)]
       IN loadWalletPathsFromGun(
             loadWalletPathsFromLocalStorage(EmptyPaths, L), replicaPaths)
          = loadWalletPathsFromLocalStorage(
               loadWalletPathsFromGun(EmptyPaths, replicaPaths), L)

C14_Witness ==
    \E c \in Calls :
      /\ Finished(c, "rebuild") /\ calls[c].preRebuild.done
      /\ calls[c].preRebuild.sawReplica = calls[c].sawReplica
      /\ calls[c].preRegistry # walletPaths
      /\ walletPaths # EmptyPaths

\* C15: an initializeWalletPaths() that has started completes, also when
\* the replica store never answers the wallet-paths query.
C15_RebuildCompletes ==
    \A c \in Calls :
      (calls[c].pc \in {"rb_wait", "rb_local"}) ~> (calls[c].pc = "done")

\* C16: an operation that starts in a state where every registry entry is
\* the derivation of its path from the current master mnemonic ends in
\* such a state.
C16_AddressesDerivedFromMnemonic ==
    \A c \in Calls :
      (calls[c].pc = "done" /\ calls[c].error = "none"
         /\ calls[c].preDerived)
      => RegistryDerived

\* C17: a loadWallets() that starts with no mnemonic in the replica store
\* and none in the local cache returns the empty list without error and
\* leaves both backends and the registry as they were.
C17_LoadWalletsOnEmptyBackends ==
    \A c \in Calls :
      ( /\ Finished(c, "load")
        /\ calls[c].preReplica = NoValue /\ calls[c].preLocal = NoValue )
      => /\ calls[c].wallets = EmptyWallets
         /\ calls[c].error = "none"
         /\ ~calls[c].minted
         /\ replica = NoValue
         /\ local[getStorageUserIdentifier(auth)] = NoValue
         /\ walletPaths = calls[c].preRegistry

C17_Witness ==
    \E c \in Calls :
      /\ Finished(c, "load")
      /\ calls[c].preReplica = NoValue /\ calls[c].preLocal = NoValue
      /\ walletPaths # EmptyPaths

\* C18: a loadWallets() that found the mnemonic m returns one wallet per
\* registry entry, with the entry's path p and the address derive(m, p),
\* and does not modify the registry.
C18_LoadWalletsDerivesEveryEntry ==
    \A c \in Calls :
      (Finished(c, "load") /\ calls[c].mnemonic # NoPhrase)
      => /\ calls[c].error = "none"
         /\ DOMAIN calls[c].wallets = DOMAIN walletPaths
         /\ \A a \in DOMAIN walletPaths :
              /\ calls[c].wallets[a].path = walletPaths[a]
              /\ calls[c].wallets[a].address
                   = derive(calls[c].mnemonic, walletPaths[a])
         /\ walletPaths = calls[c].preRegistry

\* C19: loadWallets() and getUserMasterMnemonic() complete without an
\* error, whatever the backends and the registry hold.
C19_ReadsNeverThrow ==
    \A c \in Calls :
      (Finished(c, "load") \/ Finished(c, "get")) => calls[c].error = "none"

\* ------------------------------------------------------- monitor claims
\* C20: when an execution of checkPendingTransactions gets a receipt for
\* the entry it is at, the transaction's status becomes success or failed,
\* the matching event (TRANSACTION_CONFIRMED or ERROR) is emitted, the
\* entry leaves the pending map and the balance cache no longer holds the
\* from address nor, when there is one, the to address; when there is no
\* receipt the pending map, the status and the balance cache stay as they
\* are and no event is emitted.
C20_SweepSettlesReceipts ==
    [][ \A s \in Sweeps :
          (sweeps[s].pc = "await" /\ sweeps'[s] # sweeps[s])
          => LET h == sweeps[s].cur
                 r == sweeps'[s].lastOutcome
             IN /\ sweeps'[s].lastHash = h
                /\ r \in {"ok", "reverted"}
                     => /\ txStatus'[h] = IF r = "ok" THEN "success"
                                          ELSE "failed"
                        /\ txEvents' = Append(txEvents,
                              [type |-> IF r = "ok"
                                        THEN "TRANSACTION_CONFIRMED"
                                        ELSE "ERROR",
                               txHash |-> h])
                        /\ \A i \in 1..Len(pending') : pending'[i] # h
                        /\ toLowerCase(txFrom(h)) \notin balanceCache'
                        /\ txTo(h) # ""
                             => toLowerCase(txTo(h)) \notin balanceCache'
                /\ r = "none"
                     => /\ receipts[h] = "none"
                        /\ pending' = pending
                        /\ txStatus' = txStatus
                        /\ balanceCache' = balanceCache
                        /\ txEvents' = txEvents
      ]_vars

C20_Witness ==
    \E s \in Sweeps :
      /\ sweeps[s].lastOutcome = "reverted"
      /\ sweeps[s].lastHash = "h1"
      /\ txStatus["h1"] = "failed"
      /\ \E i \in 1..Len(txEvents) :
           txEvents[i] = [type |-> "ERROR", txHash |-> "h1"]
      /\ \E t \in Sweeps : sweeps[t].lastOutcome = "none"

\* ------------------------------------------------------ lifecycle claims
\* C21: once the plugin's destroy() has returned, no execution of
\* checkPendingTransactions is started by the interval any more.
C21_NoSweepAfterDestroy ==
    [][ ~hdWalletRef
        => \A s \in Sweeps :
             ~(sweeps[s].pc = "idle" /\ sweeps'[s].pc = "await")
      ]_vars

C23_MainWalletOfCurrentIdentity ==
    \A c \in Calls :
      (Finished(c, "getMainWallet") /\ calls[c].authStable)
      => IF auth
         THEN calls[c].error = "none" /\ calls[c].main = identity
         ELSE calls[c].error = "User not authenticated"
              /\ calls[c].main = "none"

\* --------------------------------------------------------- helper claims
\* C25: getStandardBIP44Addresses(mnemonic, n) on a valid phrase returns
\* exactly n addresses, pairwise distinct, the i-th (from 0) being the one
\* derived from the phrase at m/44'/60'/0'/0/i
C25_StandardAddresses ==
    (tool.fn = "getStandardBIP44Addresses" /\ CanDerive(tool.input))
    => /\ tool.error = "none"
       /\ Len(tool.output) = tool.count
       /\ \A i \in 0..(tool.count - 1) :
            tool.output[i + 1] = derive(tool.input, BIP44Path(i))
       /\ \A i, j \in 1..tool.count :
            i # j => tool.output[i] # tool.output[j]

C25_Witness ==
    /\ tool.fn = "getStandardBIP44Addresses"
    /\ CanDerive(tool.input)
    /\ tool.count = MaxCount
    /\ Len(tool.output) = MaxCount

\* C26: generateNewMnemonic() always returns a phrase of 12 words that is a
\* valid BIP-39 phrase
C26_GeneratedMnemonicValid ==
    tool.fn = "generateNewMnemonic"
    => WordCount(tool.output) = 12 /\ CanDerive(tool.output)

C26_Witness ==
    tool.fn = "generateNewMnemonic" /\ tool.output \in ValidPhrases

\* SHA-256 of the UTF-8 bytes, as hex digits, for the inputs "", "a", "abc"
HasKnownSha256(input) == input \in {<<>>, <<97>>, <<97, 98, 99>>}
sha256Hex(input) ==
    CASE input = <<>> ->
           <<14, 3, 11, 0, 12, 4, 4, 2, 9, 8, 15, 12, 1, 12, 1, 4, 9, 10, 15, 11,
           15, 4, 12, 8, 9, 9, 6, 15, 11, 9, 2, 4, 2, 7, 10, 14, 4, 1, 14, 4, 6,
           4, 9, 11, 9, 3, 4, 12, 10, 4, 9, 5, 9, 9, 1, 11, 7, 8, 5, 2, 11, 8, 5,
           5>>
      [] input = <<97>> ->
           <<12, 10, 9, 7, 8, 1, 1, 2, 12, 10, 1, 11, 11, 13, 12, 10, 15, 10, 12,
           2, 3, 1, 11, 3, 9, 10, 2, 3, 13, 12, 4, 13, 10, 7, 8, 6, 14, 15, 15,
           8, 1, 4, 7, 12, 4, 14, 7, 2, 11, 9, 8, 0, 7, 7, 8, 5, 10, 15, 14, 14,
           4, 8, 11, 11>>
      [] input = <<97, 98, 99>> ->
           <<11, 10, 7, 8, 1, 6, 11, 15, 8, 15, 0, 1, 12, 15, 14, 10, 4, 1, 4, 1,
           4, 0, 13, 14, 5, 13, 10, 14, 2, 2, 2, 3, 11, 0, 0, 3, 6, 1, 10, 3, 9,
           6, 1, 7, 7, 10, 9, 12, 11, 4, 1, 0, 15, 15, 6, 1, 15, 2, 0, 0, 1, 5,
           10, 13>>

\* C29: generatePrivateKeyFromString(input) is the SHA-256 digest of the
\* UTF-8 bytes of the input, as 64 hex digits after "0x"
C29_KeyIsSha256 ==
    tool.fn = "generatePrivateKeyFromString"
    => /\ Len(tool.output) = 64
       /\ HasKnownSha256(tool.input) => tool.output = sha256Hex(tool.input)

\* C30: isGaslessEnabled() is true exactly when a paymaster address is
\* configured
C30_GaslessIffPaymaster ==
    tool.fn = "isGaslessEnabled"
    => (tool.output <=> truthy(aaConfig.paymasterAddress))

\* C27: saveUserMasterMnemonic(s) and importMnemonic(s) with a phrase that is
\* not a valid BIP-39 mnemonic reject with 'Invalid mnemonic length' and
\* write nothing to either backend
C27_InvalidPhraseRejected ==
    \A c \in Calls :
      ( /\ calls[c].op \in {"save", "import"} /\ calls[c].pc = "done"
        /\ calls[c].arg = BadPhrase /\ calls[c].authStable /\ ~overlap )
      => /\ calls[c].error = "Invalid mnemonic length"
         /\ replica = calls[c].preReplica
         /\ local[getStorageUserIdentifier(auth)] = calls[c].preLocal

\* C28: forceMnemonicSync() is idempotent: called when both backends hold
\* the mnemonic, and again right after, it returns true and leaves the
\* decrypted value of each backend unchanged
C28_ForceSyncIdempotent ==
    \A c \in Calls :
      ( /\ Finished(c, "force") /\ calls[c].authStable /\ auth
        /\ hdWalletRef
        /\ decryptSensitiveData(calls[c].preReplica, auth) \in ValidPhrases
        /\ decryptSensitiveData(calls[c].preLocal, auth)
             = decryptSensitiveData(calls[c].preReplica, auth) )
      => /\ calls[c].synced
         /\ decryptSensitiveData(replica, auth)
              = decryptSensitiveData(calls[c].preReplica, auth)
         /\ decryptSensitiveData(local[getStorageUserIdentifier(auth)], auth)
              = decryptSensitiveData(calls[c].preLocal, auth)

\* ------------------------------------------------ account-abstraction claims
\* C31: every UserOperation the plugin sends goes to the Bundler, never to
\* handleOps of the EntryPoint, and carries the signature of the main wallet
\* over the hash of the operation
C31_AlwaysViaBundler ==
    \A u \in userOps :
      /\ u.via = "bundler"
      /\ u.op.signature.signer # "none"
      /\ u.op.signature.over = getUserOpHash(u.op)

\* C32: with the mnemonic and the configuration fixed, all calls of
\* getOrCreateSmartAccount(index) return the same address, whatever the
\* factory and provider calls do
C32_SmartAccountDeterministic ==
    \A i \in SmartIndices : Cardinality(smartAccounts[i]) <= 1

\* ------------------------------------------------------ concurrency claims
\* C33: two createWallet() executions of one identity, however they
\* interleave, return different paths and different addresses, and the
\* registry holds both new entries
C33_OverlappingCreatesDistinct ==
    \A c, d \in Calls :
      ( /\ c # d
        /\ Finished(c, "create") /\ Finished(d, "create")
        /\ calls[c].error = "none" /\ calls[d].error = "none"
        /\ calls[c].authStable /\ calls[d].authStable )
      => /\ calls[c].path # calls[d].path
         /\ calls[c].address # calls[d].address
         /\ {calls[c].address, calls[d].address} \subseteq DOMAIN walletPaths

\* C34: createWallet() executions started while both backends are empty
\* all derive from one mnemonic, and once they have completed every address
\* they returned is the derivation of its path from the mnemonic the
\* backends hold
C34_OneMnemonicMinted ==
    \A c, d \in Calls :
      ( /\ \A e \in Calls : calls[e].pc \in {"idle", "done"}
        /\ Finished(c, "create") /\ Finished(d, "create")
        /\ calls[c].error = "none" /\ calls[d].error = "none"
        /\ calls[c].authStable /\ calls[d].authStable
        /\ calls[c].preReplica = NoValue /\ calls[c].preLocal = NoValue
        /\ calls[d].preReplica = NoValue /\ calls[d].preLocal = NoValue )
      => /\ calls[c].mnemonic = calls[d].mnemonic
         /\ calls[c].address
              = derive(decryptSensitiveData(replica, auth), calls[c].path)
         /\ calls[c].address
              = derive(decryptSensitiveData(local["pub"], auth),
                       calls[c].path)

C38_FailedLookupSkipsOnlyThatTx ==
    [][\A s \in Sweeps :
         (/\ sweeps[s].pc = "await"
          /\ sweeps'[s] # sweeps[s]
          /\ sweeps'[s].lastOutcome = "error")
         => /\ pending' = pending
            /\ txStatus' = txStatus
            /\ balanceCache' = balanceCache
            /\ txEvents' = txEvents
            /\ LET others == SelectSeq(sweeps[s].todo,
                               LAMBDA x : \E i \in 1..Len(pending) :
                                             pending[i] = x)
               IN IF others = <<>>
                  THEN sweeps'[s].pc = "idle"
                  ELSE /\ sweeps'[s].pc = "await"
                       /\ sweeps'[s].cur = Head(others)]_vars

\* A sweep whose lookup for h1 failed is now awaiting the receipt of h2,
\* and h1 is still tracked as pending
C38_Witness ==
    \E s \in Sweeps :
      /\ sweeps[s].lastOutcome = "error"
      /\ sweeps[s].lastHash = "h1"
      /\ sweeps[s].pc = "await"
      /\ sweeps[s].cur = "h2"
      /\ \E i \in 1..Len(pending) : pending[i] = "h1"
      /\ txStatus["h1"] = "pending"
      /\ txEvents = <<>>

\* ---------------------------------------------------------- plugin wiring
\* What a call of the plugin leaves in `tool`
PluginAnswer(fn, url, out, err) ==
    tool' = [fn |-> fn, input |-> <<url>>, count |-> 0, output |-> <<out>>,
             error |-> err]

\* HDWalletPlugin.initialize(core): without core.gun it throws; else the
\* manager is constructed (which arms the monitor), setRpcUrl runs when
\* walletConfig.rpcUrl is set, and only after it the listeners are
\* registered
Initialize(hasGun) ==
    /\ initResult = "none"
    /\ IF ~hasGun
       THEN /\ initResult' = "threw"
            /\ PluginAnswer("initialize", rpcUrl, FALSE,
                            "Gun dependency not available in core")
            /\ UNCHANGED <<hdWalletRef, monitoring, provider, mainWallet,
                           rpcUrl, listeners>>
       ELSE /\ hdWalletRef' = TRUE
            /\ monitoring' = ~nodeEnvTest
            /\ IF rpcUrl # NoUrl
               THEN /\ hdSetRpcUrl(rpcUrl)
                    /\ LET thrown == mainWallet' = "none"
                       IN /\ listeners' = (listeners \/ ~thrown)
                          /\ initResult' = IF thrown THEN "threw" ELSE "ok"
                          /\ PluginAnswer("initialize", rpcUrl, ~thrown,
                                IF thrown THEN "User not authenticated"
                                ELSE "none")
               ELSE /\ listeners' = TRUE
                    /\ initResult' = "ok"
                    /\ PluginAnswer("initialize", rpcUrl, TRUE, "none")
                    /\ UNCHANGED <<provider, mainWallet, rpcUrl>>
    /\ UNCHANGED <<pending, txStatus, balanceCache, txEvents, receipts,
                   sweeps, regStoreVars, identity, aaConfig, aaVars>>
    /\ UNCHANGED <<auth, nodeEnvTest, overlap, replica, local, walletPaths,
                   events, calls, known, lastSaved>>

\* HDWalletPlugin.setRpcUrl(url): false without a manager; else the
\* manager's setRpcUrl runs, and the result is whether it returned
PluginSetRpcUrl(url) ==
    /\ initResult # "none"
    /\ IF ~hdWalletRef
       THEN /\ PluginAnswer("setRpcUrl", url, FALSE, "none")
            /\ UNCHANGED <<provider, mainWallet, rpcUrl>>
       ELSE /\ hdSetRpcUrl(url)
            /\ PluginAnswer("setRpcUrl", url, mainWallet' # "none", "none")
    /\ UNCHANGED <<pending, txStatus, balanceCache, txEvents, receipts,
                   sweeps, regStoreVars, monitoring, hdWalletRef, identity,
                   aaConfig, aaVars, listeners, initResult>>
    /\ UNCHANGED <<auth, nodeEnvTest, overlap, replica, local, walletPaths,
                   events, calls, known, lastSaved>>

\* A plugin that has been constructed, with or without rpcUrl in its
\* configuration, and not initialised
InitPlugin ==
    /\ auth \in BOOLEAN
    /\ nodeEnvTest \in BOOLEAN
    /\ overlap = FALSE
    /\ replica = NoValue
    /\ local = [i \in StorageIds |-> NoValue]
    /\ walletPaths = EmptyPaths
    /\ events = {}
    /\ calls = [c \in Calls |-> IdleCall]
    /\ known = NoPhrase
    /\ lastSaved = NoPhrase
    /\ NoWalletPathsStored
    /\ MonitorQuiet
    /\ monitoring = FALSE
    /\ hdWalletRef = FALSE
    /\ identity = "A"
    /\ mainWallet = "none"
    /\ aaConfig = InitialConfig
    /\ tool = NoTool
    /\ NoContracts
    /\ rpcUrl \in {NoUrl} \cup RpcUrls
    /\ listeners = FALSE
    /\ initResult = "none"

NextPlugin ==
    \/ \E hasGun \in BOOLEAN : Initialize(hasGun)
    \/ \E url \in RpcUrls : PluginSetRpcUrl(url)
    \/ Login
    \/ Logout
    \/ Destroy

SpecPlugin == InitPlugin /\ [][NextPlugin]_vars

\* C39: initialize(core) of a plugin constructed with rpcUrl returns without
\* throwing and registers the auth listeners, whether or not an identity is
\* authenticated
C39_InitializeRegistersListeners ==
    (/\ tool.fn = "initialize"
     /\ tool.input # <<NoUrl>>
     /\ tool.error # "Gun dependency not available in core")
    => (initResult = "ok" /\ listeners)

\* C40: the plugin's setRpcUrl(url) returns true only with the provider
\* switched to url, and a call that returns false leaves the provider and
\* the configured rpcUrl as they were
C40_SetRpcUrlResult ==
    [][(/\ tool'.fn = "setRpcUrl"
        /\ <<tool, provider, rpcUrl, mainWallet>>'
             # <<tool, provider, rpcUrl, mainWallet>>)
       => IF tool'.output = <<TRUE>>
          THEN provider' /\ rpcUrl' = tool'.input[1]
          ELSE provider' = provider /\ rpcUrl' = rpcUrl]_vars

\* ------------------------------------------------- monitor under fairness
\* The monitor with sessions that end and begin again.  While the interval
\* is armed it keeps firing, and the receipt lookup of a transaction that
\* is attempted again and again eventually succeeds
NextMonitor ==
    \/ SetRpcUrl
    \/ \E h \in TxHashes, r \in {"ok", "reverted"} : ReceiptArrives(h, r)
    \/ \E s \in Sweeps : SweepStart(s)
    \/ \E s \in Sweeps, rejects \in BOOLEAN : SweepStep(s, rejects)
    \/ Logout
    \/ Login

MonitorFairness ==
    /\ \A s \in Sweeps : WF_vars(SweepStart(s))
    /\ \A s \in Sweeps, h \in TxHashes :
         SF_vars(sweeps[s].cur = h /\ SweepStep(s, FALSE))

SpecMonitor == InitTx /\ [][NextMonitor]_vars /\ MonitorFairness

\* C36: with the plugin initialised, a session open and a provider set, a
\* tracked transaction whose receipt is available is eventually resolved
\* and removed, also in a session that follows a logout
C36_PendingEventuallyResolved ==
    \A h \in TxHashes :
      (/\ hdWalletRef
       /\ auth
       /\ provider
       /\ receipts[h] # "none"
       /\ \E i \in 1..Len(pending) : pending[i] = h)
      ~> (~ \E i \in 1..Len(pending) : pending[i] = h)

\* ------------------------------------------ bounded replica query, fair
\* getUserMasterMnemonic and createWallet with sessions that end and begin.
\* The replica may answer or stay silent; the 5 s timer fires while it is
\* armed
NextWait ==
    \/ Login
    \/ Logout
    \/ \E c \in Calls : GetStart(c)
    \/ \E c \in Calls : CreateStart(c)
    \/ \E c \in Calls, t \in BOOLEAN : GetReplicaResolve(c, t)
    \/ \E c \in Calls : GetSync(c)
    \/ \E c \in Calls : CreateResolved(c)
    \/ \E c \in Calls : SavePut(c)
    \/ \E c \in Calls : SaveLocal(c)
    \/ \E c \in Calls : Return(c)

WaitFairness ==
    \A c \in Calls : WF_vars(GetReplicaResolve(c, TRUE))

SpecWait == Init /\ [][NextWait]_vars /\ WaitFairness

\* C37: a getUserMasterMnemonic() that waits on the bounded replica query,
\* called directly or by createWallet(), eventually gets past the query,
\* also when the replica stays silent and a logout happens meanwhile
C37_MnemonicQueryReturns ==
    \A c \in Calls :
      (calls[c].pc = "gm_wait") ~> (calls[c].pc # "gm_wait")

====
